---- MODULE Spec2Model ----
(***************************************************************************)
(* A model of the dispatch router (bjaus/dispatch): source registration,   *)
(* the adaptive discriminator matcher with its per-call view cache, the    *)
(* handler registry and invoker, the hook chain and the Replier.           *)
(*                                                                         *)
(* Go slices are modelled as sequences; positions kept in a sourceRef are  *)
(* Go's 0-based indices, so element i of a slice is s[i + 1] here.         *)
(***************************************************************************)
EXTENDS Integers, Sequences, FiniteSets, TLC

VARIABLES
    defaultInspector,   \* Router.defaultInspector
    defaultSources,     \* Router.defaultSources
    groups,             \* Router.groups: sequence of [inspector, sources]
    handlers,           \* Router.handlers: routing key -> invoker
    hooks,              \* Router.hooks: one list of global hooks per kind
    lastMatch,          \* Router.lastMatch: <<>> (nothing stored) or <<sourceRef>>
    call,               \* <<>> or <<record of the most recent finished Process call>>
    procs,              \* concurrent Process calls: position and locals of each
    registrations       \* the Register calls made since the initial state, in order

vars == <<defaultInspector, defaultSources, groups, handlers, hooks, lastMatch, call, procs,
          registrations>>

config == <<defaultInspector, defaultSources, groups, handlers, hooks>>

-----------------------------------------------------------------------------
(* Bounds of the model *)

\* most sources registered in total (default group and custom groups together)
MaxSources == 2

\* most custom groups registered
MaxGroups == 2

\* most global hooks registered per hook kind
MaxHooks == 2

\* most RegisterProc and RegisterFunc calls made on one router
MaxRegistrations == 3

-----------------------------------------------------------------------------
(* Values *)

\* groupIdx of a sourceRef that names a default source
DefaultGroupIdx == -1

Fields == {"a", "b"}

\* wire formats a raw message may be in
Formats == {"json", "proto"}

\* "J" is the value JSONInspector() returns; "P" is a custom inspector
Inspectors == {"J", "P"}

Keys == {"k1", "k2"}

\* An error is the chain of its layers, outermost first; the nil error has none
Nil == <<>>

\* a new error (errors.New, or whatever user code returns)
Err(kind, of) == <<[kind |-> kind, of |-> of]>>

\* fmt.Errorf("<kind>: %w", e), and the unexported wrapper types of the router
Wrap(kind, e) == <<[kind |-> kind, of |-> ""]>> \o e

\* errors.As(e, &target) for a target of the given wrapper kind
ErrorsAs(e, kind) == \E i \in 1..Len(e) : e[i].kind = kind

\* the error the first layer of the given kind wraps
Wrapped(e, kind) ==
    LET i == CHOOSE j \in 1..Len(e) : e[j].kind = kind /\ \A k \in 1..(j - 1) : e[k].kind # kind
    IN  SubSeq(e, i + 1, Len(e))

\* the context Process is called with
Background == <<>>

\* the format an inspector can read
InspectorFormat(insp) == IF insp = "J" THEN "json" ELSE "proto"

\* Inspector.Inspect: an error when raw is not in the inspector's format,
\* else a view over raw's fields
Inspect(insp, raw) ==
    IF raw.fmt # InspectorFormat(insp)
    THEN [ok |-> FALSE, view |-> {}]
    ELSE [ok |-> TRUE, view |-> raw.fields]

\* Discriminator.Match for HasFields(fs...): every field is present in the view;
\* HasFields() with no fields matches every view
DiscMatch(disc, view) == \A f \in disc : f \in view

\* one entry of the log of a Process call
Ev(op, who, pos, ctx, err, arg) ==
    [op |-> op, who |-> who, pos |-> pos, ctx |-> ctx, err |-> err, arg |-> arg]

\* the position of a sourceRef as a pair
Pos(ref) == <<ref.groupIdx, ref.sourceIdx>>

-----------------------------------------------------------------------------
(* viewCache *)

\* newViewCache: no inspector has a cached result
newViewCache == [i \in Inspectors |-> [cached |-> FALSE, ok |-> FALSE, view |-> {}]]

\* get with a cache that is never consulted
get_uncached(m, insp, raw) ==
    LET r == Inspect(insp, raw)
    IN  [cache |-> [m.cache EXCEPT ![insp] = [cached |-> TRUE, ok |-> r.ok, view |-> r.view]],
         log |-> Append(m.log, Ev("Inspect", insp, <<>>, <<>>, Nil, "")),
         ok |-> r.ok, view |-> r.view]

\* viewCache.get: the cached result, or the inspector's result, which is then
\* cached whether it is a view or a failure. m is [cache, log].
get(m, insp, raw) ==
    IF m.cache[insp].cached
    THEN [cache |-> m.cache, log |-> m.log,
          ok |-> m.cache[insp].ok, view |-> m.cache[insp].view]
    ELSE LET r == Inspect(insp, raw)
             logged == Append(m.log, Ev("Inspect", insp, <<>>, <<>>, Nil, ""))
         IN  IF ~r.ok
             THEN [cache |-> [m.cache EXCEPT ![insp] = [cached |-> TRUE, ok |-> FALSE, view |-> {}]],
                   log |-> logged, ok |-> FALSE, view |-> {}]
             ELSE [cache |-> [m.cache EXCEPT ![insp] = [cached |-> TRUE, ok |-> TRUE, view |-> r.view]],
                   log |-> logged, ok |-> TRUE, view |-> r.view]

-----------------------------------------------------------------------------
(* The matcher.  A matcher result is [cache, log, src, stored]: src is <<>>  *)
(* or <<sourceRef of the source returned>>, stored is <<>> or <<sourceRef    *)
(* written to lastMatch>>.                                                    *)

Ref(g, i) == [groupIdx |-> g, sourceIdx |-> i]

\* the source a sourceRef names
SourceAt(ref) ==
    IF ref.groupIdx = DefaultGroupIdx
    THEN defaultSources[ref.sourceIdx + 1]
    ELSE groups[ref.groupIdx + 1].sources[ref.sourceIdx + 1]

\* the inspector of the group a sourceRef names
InspectorAt(ref) ==
    IF ref.groupIdx = DefaultGroupIdx
    THEN defaultInspector
    ELSE groups[ref.groupIdx + 1].inspector

\* evaluating one discriminator, logged
MatchEv(ref) == Ev("Match", SourceAt(ref).name, Pos(ref), <<>>, Nil, "")

\* trySource that returns the source at ref whenever it exists, its
\* discriminator unevaluated
trySource_noRevalidate(m, ref, raw) ==
    IF ref.groupIdx = DefaultGroupIdx
    THEN IF ref.sourceIdx >= Len(defaultSources)
         THEN [cache |-> m.cache, log |-> m.log, src |-> <<>>, stored |-> <<>>]
         ELSE [cache |-> m.cache, log |-> m.log, src |-> <<ref>>, stored |-> <<>>]
    ELSE IF ref.groupIdx >= Len(groups) \/ ref.sourceIdx >= Len(groups[ref.groupIdx + 1].sources)
         THEN [cache |-> m.cache, log |-> m.log, src |-> <<>>, stored |-> <<>>]
         ELSE [cache |-> m.cache, log |-> m.log, src |-> <<ref>>, stored |-> <<>>]

\* trySource: the source at ref if it exists, its inspector reads raw and its
\* discriminator matches the view
trySource(m, ref, raw) ==
    LET miss(c, l) == [cache |-> c, log |-> l, src |-> <<>>, stored |-> <<>>]
    IN  IF ref.groupIdx = DefaultGroupIdx
        THEN IF ref.sourceIdx >= Len(defaultSources)
             THEN miss(m.cache, m.log)
             ELSE LET v == get(m, defaultInspector, raw)
                  IN  IF ~v.ok
                      THEN miss(v.cache, v.log)
                      ELSE IF DiscMatch(defaultSources[ref.sourceIdx + 1].disc, v.view)
                           THEN [cache |-> v.cache, log |-> Append(v.log, MatchEv(ref)),
                                 src |-> <<ref>>, stored |-> <<>>]
                           ELSE miss(v.cache, Append(v.log, MatchEv(ref)))
        ELSE IF ref.groupIdx >= Len(groups)
             THEN miss(m.cache, m.log)
             ELSE IF ref.sourceIdx >= Len(groups[ref.groupIdx + 1].sources)
                  THEN miss(m.cache, m.log)
                  ELSE LET v == get(m, groups[ref.groupIdx + 1].inspector, raw)
                       IN  IF ~v.ok
                           THEN miss(v.cache, v.log)
                           ELSE IF DiscMatch(groups[ref.groupIdx + 1].sources[ref.sourceIdx + 1].disc, v.view)
                                THEN [cache |-> v.cache, log |-> Append(v.log, MatchEv(ref)),
                                      src |-> <<ref>>, stored |-> <<>>]
                                ELSE miss(v.cache, Append(v.log, MatchEv(ref)))

\* the loop over the sources of one group (gi, sources srcs, view), from
\* 0-based index si: the first source whose discriminator matches is stored in
\* lastMatch and returned
RECURSIVE scanSources(_, _, _, _, _, _)

\* scanSources whose loop ends one source early
scanSources_offByOne(cache, log, gi, srcs, view, si) ==
    IF si >= Len(srcs) - 1
    THEN [cache |-> cache, log |-> log, src |-> <<>>, stored |-> <<>>]
    ELSE IF DiscMatch(srcs[si + 1].disc, view)
         THEN [cache |-> cache,
               log |-> log \o <<MatchEv(Ref(gi, si)), Ev("Store", "", Pos(Ref(gi, si)), <<>>, Nil, "")>>,
               src |-> <<Ref(gi, si)>>, stored |-> <<Ref(gi, si)>>]
         ELSE scanSources(cache, Append(log, MatchEv(Ref(gi, si))), gi, srcs, view, si + 1)

\* scanSources that stores the position of the match counted from one
scanSources_oneBased(cache, log, gi, srcs, view, si) ==
    IF si >= Len(srcs)
    THEN [cache |-> cache, log |-> log, src |-> <<>>, stored |-> <<>>]
    ELSE IF DiscMatch(srcs[si + 1].disc, view)
         THEN [cache |-> cache,
               log |-> log \o <<MatchEv(Ref(gi, si)), Ev("Store", "", Pos(Ref(gi, si + 1)), <<>>, Nil, "")>>,
               src |-> <<Ref(gi, si)>>, stored |-> <<Ref(gi, si + 1)>>]
         ELSE scanSources(cache, Append(log, MatchEv(Ref(gi, si))), gi, srcs, view, si + 1)

scanSources(cache, log, gi, srcs, view, si) ==
    IF si >= Len(srcs)
    THEN [cache |-> cache, log |-> log, src |-> <<>>, stored |-> <<>>]
    ELSE IF DiscMatch(srcs[si + 1].disc, view)
         THEN [cache |-> cache,
               log |-> log \o <<MatchEv(Ref(gi, si)), Ev("Store", "", Pos(Ref(gi, si)), <<>>, Nil, "")>>,
               src |-> <<Ref(gi, si)>>, stored |-> <<Ref(gi, si)>>]
         ELSE scanSources(cache, Append(log, MatchEv(Ref(gi, si))), gi, srcs, view, si + 1)

\* the loop over the custom groups, from 0-based index gi: a group whose
\* inspector fails is skipped
RECURSIVE scanGroups(_, _, _)

\* scanGroups that gives up at the first group whose inspector fails
scanGroups_abort(m, raw, gi) ==
    IF gi >= Len(groups)
    THEN [cache |-> m.cache, log |-> m.log, src |-> <<>>, stored |-> <<>>]
    ELSE LET v == get(m, groups[gi + 1].inspector, raw)
         IN  IF ~v.ok
             THEN [cache |-> v.cache, log |-> v.log, src |-> <<>>, stored |-> <<>>]
             ELSE LET r == scanSources(v.cache, v.log, gi, groups[gi + 1].sources, v.view, 0)
                  IN  IF r.src # <<>>
                      THEN r
                      ELSE scanGroups([cache |-> r.cache, log |-> r.log], raw, gi + 1)

scanGroups(m, raw, gi) ==
    IF gi >= Len(groups)
    THEN [cache |-> m.cache, log |-> m.log, src |-> <<>>, stored |-> <<>>]
    ELSE LET v == get(m, groups[gi + 1].inspector, raw)
         IN  IF ~v.ok
             THEN scanGroups([cache |-> v.cache, log |-> v.log], raw, gi + 1)
             ELSE LET r == scanSources(v.cache, v.log, gi, groups[gi + 1].sources, v.view, 0)
                  IN  IF r.src # <<>>
                      THEN r
                      ELSE scanGroups([cache |-> r.cache, log |-> r.log], raw, gi + 1)

\* matchAll that searches the custom groups before the default group
matchAll_groupsFirst(m, raw) ==
    LET m0 == [cache |-> m.cache, log |-> Append(m.log, Ev("matchAll", "", <<>>, <<>>, Nil, ""))]
        g  == scanGroups(m0, raw, 0)
    IN  IF g.src # <<>>
        THEN g
        ELSE IF Len(defaultSources) > 0
             THEN LET v == get([cache |-> g.cache, log |-> g.log], defaultInspector, raw)
                  IN  IF v.ok
                      THEN scanSources(v.cache, v.log, DefaultGroupIdx, defaultSources, v.view, 0)
                      ELSE [cache |-> v.cache, log |-> v.log, src |-> <<>>, stored |-> <<>>]
             ELSE g

\* matchAll: the default group first, then the custom groups
matchAll(m, raw) ==
    LET m0 == [cache |-> m.cache, log |-> Append(m.log, Ev("matchAll", "", <<>>, <<>>, Nil, ""))]
        d  == IF Len(defaultSources) > 0
              THEN LET v == get(m0, defaultInspector, raw)
                   IN  IF v.ok
                       THEN scanSources(v.cache, v.log, DefaultGroupIdx, defaultSources, v.view, 0)
                       ELSE [cache |-> v.cache, log |-> v.log, src |-> <<>>, stored |-> <<>>]
              ELSE [cache |-> m0.cache, log |-> m0.log, src |-> <<>>, stored |-> <<>>]
    IN  IF d.src # <<>>
        THEN d
        ELSE scanGroups([cache |-> d.cache, log |-> d.log], raw, 0)

\* matchLoaded with no fast path
matchLoaded_noFastPath(lm, raw) ==
    matchAll([cache |-> newViewCache,
              log |-> <<Ev("Load", "", IF lm = <<>> THEN <<>> ELSE Pos(lm[1]), <<>>, Nil, "")>>], raw)

\* matchLoaded that returns the source lastMatch names without trying it
matchLoaded_trustHint(lm, raw) ==
    LET m0 == [cache |-> newViewCache,
               log |-> <<Ev("Load", "", IF lm = <<>> THEN <<>> ELSE Pos(lm[1]), <<>>, Nil, "")>>]
    IN  IF lm # <<>>
        THEN [cache |-> m0.cache, log |-> m0.log, src |-> lm, stored |-> <<>>]
        ELSE matchAll(m0, raw)

\* matchLoaded that keeps the reference it loaded when the full search after a
\* miss finds another source
matchLoaded_keepsStale(lm, raw) ==
    LET m0 == [cache |-> newViewCache,
               log |-> <<Ev("Load", "", IF lm = <<>> THEN <<>> ELSE Pos(lm[1]), <<>>, Nil, "")>>]
    IN  IF lm # <<>>
        THEN LET t == trySource(m0, lm[1], raw)
             IN  IF t.src # <<>>
                 THEN t
                 ELSE [matchAll([cache |-> t.cache, log |-> t.log], raw) EXCEPT !.stored = <<>>]
        ELSE matchAll(m0, raw)

\* the part of match after lastMatch was loaded as lm: the fast path, then
\* the full search
matchLoaded(lm, raw) ==
    LET m0 == [cache |-> newViewCache,
               log |-> <<Ev("Load", "", IF lm = <<>> THEN <<>> ELSE Pos(lm[1]), <<>>, Nil, "")>>]
    IN  IF lm # <<>>
        THEN LET t == trySource(m0, lm[1], raw)
             IN  IF t.src # <<>>
                 THEN t
                 ELSE matchAll([cache |-> t.cache, log |-> t.log], raw)
        ELSE matchAll(m0, raw)

\* match, run without interruption: it loads lastMatch and searches
match(raw) == matchLoaded(lastMatch, raw)

-----------------------------------------------------------------------------
(* Hooks.  A global hook is [id, fails]: a decision hook returns an error    *)
(* iff fails.  A source is [name, disc, caps, errs]: caps are the optional   *)
(* hook interfaces it implements, errs those of its decision hooks that      *)
(* return an error.  A hook result is [log, ctx] or [log, ret].              *)

HookErr(id) == Err("hook", id)

\* the loop over the global OnParse hooks, from index i: each hook gets the
\* context the one before it returned
RECURSIVE chainOnParse(_, _, _, _)
chainOnParse(log, ctx, key, i) ==
    IF i > Len(hooks.onParse)
    THEN [log |-> log, ctx |-> ctx]
    ELSE chainOnParse(Append(log, Ev("OnParse", hooks.onParse[i].id, <<>>, ctx, Nil, key)),
                      Append(ctx, hooks.onParse[i].id), key, i + 1)

\* callOnParse whose source hook gets the context Process was called with
callOnParse_unchained(log, ctx, ref, key) ==
    LET g == chainOnParse(log, ctx, key, 1)
    IN  IF "OnParse" \in SourceAt(ref).caps
        THEN [log |-> Append(g.log, Ev("OnParse", SourceAt(ref).name, Pos(ref), ctx, Nil, key)),
              ctx |-> Append(ctx, SourceAt(ref).name)]
        ELSE g

\* callOnParse: the global hooks, then the source's own
callOnParse(log, ctx, ref, key) ==
    LET g == chainOnParse(log, ctx, key, 1)
    IN  IF "OnParse" \in SourceAt(ref).caps
        THEN [log |-> Append(g.log, Ev("OnParse", SourceAt(ref).name, Pos(ref), g.ctx, Nil, key)),
              ctx |-> Append(g.ctx, SourceAt(ref).name)]
        ELSE g

\* the loop over a list of global hooks that return nothing, from index i
RECURSIVE fireAll(_, _, _, _, _, _, _)
fireAll(list, op, log, ctx, key, err, i) ==
    IF i > Len(list)
    THEN log
    ELSE fireAll(list, op, Append(log, Ev(op, list[i].id, <<>>, ctx, err, key)), ctx, key, err, i + 1)

\* callOnDispatch: the global hooks, then the source's own
callOnDispatch(log, ctx, ref, key) ==
    LET g == fireAll(hooks.onDispatch, "OnDispatch", log, ctx, key, Nil, 1)
    IN  IF "OnDispatch" \in SourceAt(ref).caps
        THEN Append(g, Ev("OnDispatch", SourceAt(ref).name, Pos(ref), ctx, Nil, key))
        ELSE g

\* callOnSuccess that stops after the first global hook
callOnSuccess_firstOnly(log, ctx, ref, key) ==
    IF Len(hooks.onSuccess) > 0
    THEN Append(log, Ev("OnSuccess", hooks.onSuccess[1].id, <<>>, ctx, Nil, key))
    ELSE IF "OnSuccess" \in SourceAt(ref).caps
         THEN Append(log, Ev("OnSuccess", SourceAt(ref).name, Pos(ref), ctx, Nil, key))
         ELSE log

\* callOnSuccess: the global hooks, then the source's own
callOnSuccess(log, ctx, ref, key) ==
    LET g == fireAll(hooks.onSuccess, "OnSuccess", log, ctx, key, Nil, 1)
    IN  IF "OnSuccess" \in SourceAt(ref).caps
        THEN Append(g, Ev("OnSuccess", SourceAt(ref).name, Pos(ref), ctx, Nil, key))
        ELSE g

\* callOnFailure that takes a handler whose result cannot be marshaled for a
\* handler that succeeded
callOnFailure_marshalIsSuccess(log, ctx, ref, key, err) ==
    LET g == fireAll(hooks.onFailure, "OnFailure", log, ctx, key, err, 1)
    IN  IF ErrorsAs(err, "marshal result")
        THEN callOnSuccess(log, ctx, ref, key)
        ELSE IF "OnFailure" \in SourceAt(ref).caps
             THEN Append(g, Ev("OnFailure", SourceAt(ref).name, Pos(ref), ctx, err, key))
             ELSE g

\* callOnFailure: the global hooks, then the source's own
callOnFailure(log, ctx, ref, key, err) ==
    LET g == fireAll(hooks.onFailure, "OnFailure", log, ctx, key, err, 1)
    IN  IF "OnFailure" \in SourceAt(ref).caps
        THEN Append(g, Ev("OnFailure", SourceAt(ref).name, Pos(ref), ctx, err, key))
        ELSE g

\* the loop of handleNoSource and handleParseError, from index i: it returns
\* at the first hook that returns an error
RECURSIVE untilError(_, _, _, _, _, _)
untilError(list, op, log, ctx, err, i) ==
    IF i > Len(list)
    THEN [log |-> log, ret |-> Nil]
    ELSE LET logged == Append(log, Ev(op, list[i].id, <<>>, ctx, err, ""))
         IN  IF list[i].fails
             THEN [log |-> logged, ret |-> HookErr(list[i].id)]
             ELSE untilError(list, op, logged, ctx, err, i + 1)

\* handleNoSource
handleNoSource(log, ctx) ==
    LET r == untilError(hooks.onNoSource, "OnNoSource", log, ctx, Nil, 1)
    IN  IF r.ret # Nil
        THEN r
        ELSE IF Len(hooks.onNoSource) > 0
             THEN [log |-> r.log, ret |-> Nil]
             ELSE [log |-> r.log, ret |-> Err("no source matched message", "")]

\* handleParseError that fails with the default error unless a hook returned one
handleParseError_noSkip(log, ctx, ref, parseErr) ==
    LET r == untilError(hooks.onParseError, "OnParseError", log, ctx, parseErr, 1)
    IN  IF r.ret # Nil
        THEN r
        ELSE [log |-> r.log, ret |-> Wrap("parse failed for source", parseErr)]

\* handleParseError
handleParseError(log, ctx, ref, parseErr) ==
    LET r == untilError(hooks.onParseError, "OnParseError", log, ctx, parseErr, 1)
    IN  IF r.ret # Nil
        THEN r
        ELSE IF Len(hooks.onParseError) > 0
             THEN [log |-> r.log, ret |-> Nil]
             ELSE [log |-> r.log, ret |-> Wrap("parse failed for source", parseErr)]

\* collectErrs that leaves the loop at the first hook that returns an error
RECURSIVE collectErrs_shortCircuit(_, _, _, _, _, _, _)
collectErrs_shortCircuit(list, op, d, ctx, key, err, i) ==
    IF i > Len(list)
    THEN d
    ELSE LET logged == Append(d.log, Ev(op, list[i].id, <<>>, ctx, err, key))
         IN  IF list[i].fails
             THEN [log |-> logged, errs |-> Append(d.errs, HookErr(list[i].id))]
             ELSE collectErrs_shortCircuit(list, op, [log |-> logged, errs |-> d.errs],
                                           ctx, key, err, i + 1)

\* the loop over a list of global decision hooks, from index i: every hook is
\* called and the errors returned are collected in order. d is [log, errs].
RECURSIVE collectErrs(_, _, _, _, _, _, _)
collectErrs(list, op, d, ctx, key, err, i) ==
    IF i > Len(list)
    THEN d
    ELSE collectErrs(list, op,
                     [log  |-> Append(d.log, Ev(op, list[i].id, <<>>, ctx, err, key)),
                      errs |-> IF list[i].fails THEN Append(d.errs, HookErr(list[i].id)) ELSE d.errs],
                     ctx, key, err, i + 1)

\* the source's own decision hook of kind op, if the source implements it
sourceDecision(op, d, ctx, ref, key, err) ==
    IF op \in SourceAt(ref).caps
    THEN [log  |-> Append(d.log, Ev(op, SourceAt(ref).name, Pos(ref), ctx, err, key)),
          errs |-> IF op \in SourceAt(ref).errs
                   THEN Append(d.errs, HookErr(SourceAt(ref).name))
                   ELSE d.errs]
    ELSE d

\* Replier.Fail and Replier.Reply of the replier the message carries
replierFail(log, ctx, replier, err) ==
    [log |-> Append(log, Ev("Fail", replier, <<>>, ctx, err, "")),
     ret |-> IF replier = "errs" THEN Err("replier", "fail") ELSE Nil]

replierReply(log, ctx, replier, result) ==
    [log |-> Append(log, Ev("Reply", replier, <<>>, ctx, Nil, result)),
     ret |-> IF replier = "errs" THEN Err("replier", "reply") ELSE Nil]

\* conclude that takes the last error collected
conclude_lastError(d, nGlobal, fallback, ctx, replier) ==
    LET resultErr == IF Len(d.errs) > 0 THEN d.errs[Len(d.errs)]
                     ELSE IF nGlobal = 0 THEN fallback
                     ELSE Nil
    IN  IF resultErr # Nil /\ replier # "none"
        THEN replierFail(d.log, ctx, replier, resultErr)
        ELSE [log |-> d.log, ret |-> resultErr]

\* conclude that synthesizes the default error whenever no hook returned one
conclude_noSkip(d, nGlobal, fallback, ctx, replier) ==
    LET resultErr == IF Len(d.errs) > 0 THEN d.errs[1] ELSE fallback
    IN  IF resultErr # Nil /\ replier # "none"
        THEN replierFail(d.log, ctx, replier, resultErr)
        ELSE [log |-> d.log, ret |-> resultErr]

\* conclude that hands Fail the default error whatever the hooks returned
conclude_failGetsDefault(d, nGlobal, fallback, ctx, replier) ==
    LET resultErr == IF Len(d.errs) > 0 THEN d.errs[1]
                     ELSE IF nGlobal = 0 THEN fallback
                     ELSE Nil
    IN  IF resultErr # Nil /\ replier # "none"
        THEN replierFail(d.log, ctx, replier, fallback)
        ELSE [log |-> d.log, ret |-> resultErr]

\* conclude that calls Replier.Fail whenever there is a replier
conclude_failOnSkip(d, nGlobal, fallback, ctx, replier) ==
    LET resultErr == IF Len(d.errs) > 0 THEN d.errs[1]
                     ELSE IF nGlobal = 0 THEN fallback
                     ELSE Nil
    IN  IF replier # "none"
        THEN replierFail(d.log, ctx, replier, resultErr)
        ELSE [log |-> d.log, ret |-> resultErr]

\* the end of the three decision handlers: the first error collected, else
\* the default error when no global hook is registered, else nil; a non-nil
\* result goes to Replier.Fail when there is a replier
conclude(d, nGlobal, fallback, ctx, replier) ==
    LET resultErr == IF Len(d.errs) > 0 THEN d.errs[1]
                     ELSE IF nGlobal = 0 THEN fallback
                     ELSE Nil
    IN  IF resultErr # Nil /\ replier # "none"
        THEN replierFail(d.log, ctx, replier, resultErr)
        ELSE [log |-> d.log, ret |-> resultErr]

\* handleNoHandler that counts the source's own hook among the registered
handleNoHandler_countsSource(log, ctx, ref, key, replier) ==
    LET g == collectErrs(hooks.onNoHandler, "OnNoHandler", [log |-> log, errs |-> <<>>], ctx, key, Nil, 1)
        d == sourceDecision("OnNoHandler", g, ctx, ref, key, Nil)
        own == IF "OnNoHandler" \in SourceAt(ref).caps THEN 1 ELSE 0
    IN  conclude(d, Len(hooks.onNoHandler) + own, Err("no handler for key", key), ctx, replier)

\* handleNoHandler whose hooks get the context Process was called with
handleNoHandler_callerCtx(log, ctx, ref, key, replier) ==
    LET g == collectErrs(hooks.onNoHandler, "OnNoHandler", [log |-> log, errs |-> <<>>], Background, key, Nil, 1)
        d == sourceDecision("OnNoHandler", g, Background, ref, key, Nil)
    IN  conclude(d, Len(hooks.onNoHandler), Err("no handler for key", key), ctx, replier)

\* handleNoHandler
handleNoHandler(log, ctx, ref, key, replier) ==
    LET g == collectErrs(hooks.onNoHandler, "OnNoHandler", [log |-> log, errs |-> <<>>], ctx, key, Nil, 1)
        d == sourceDecision("OnNoHandler", g, ctx, ref, key, Nil)
    IN  conclude(d, Len(hooks.onNoHandler), Err("no handler for key", key), ctx, replier)

\* handleUnmarshalError whose hooks get the error still in the router's wrapper
handleUnmarshalError_wrapped(log, ctx, ref, key, err, replier) ==
    LET w == Wrap("unmarshalError", err)
        g == collectErrs(hooks.onUnmarshalError, "OnUnmarshalError", [log |-> log, errs |-> <<>>], ctx, key, w, 1)
        d == sourceDecision("OnUnmarshalError", g, ctx, ref, key, w)
    IN  conclude(d, Len(hooks.onUnmarshalError), Wrap("unmarshal payload", err), ctx, replier)

\* handleUnmarshalError
handleUnmarshalError(log, ctx, ref, key, err, replier) ==
    LET g == collectErrs(hooks.onUnmarshalError, "OnUnmarshalError", [log |-> log, errs |-> <<>>], ctx, key, err, 1)
        d == sourceDecision("OnUnmarshalError", g, ctx, ref, key, err)
    IN  conclude(d, Len(hooks.onUnmarshalError), Wrap("unmarshal payload", err), ctx, replier)

\* handleValidationError that never treats the message as skipped
handleValidationError_noSkip(log, ctx, ref, key, err, replier) ==
    LET g == collectErrs(hooks.onValidationError, "OnValidationError", [log |-> log, errs |-> <<>>], ctx, key, err, 1)
        d == sourceDecision("OnValidationError", g, ctx, ref, key, err)
    IN  conclude(d, 0, Wrap("validate payload", err), ctx, replier)

\* handleValidationError
handleValidationError(log, ctx, ref, key, err, replier) ==
    LET g == collectErrs(hooks.onValidationError, "OnValidationError", [log |-> log, errs |-> <<>>], ctx, key, err, 1)
        d == sourceDecision("OnValidationError", g, ctx, ref, key, err)
    IN  conclude(d, Len(hooks.onValidationError), Wrap("validate payload", err), ctx, replier)

-----------------------------------------------------------------------------
(* The invoker.  A handler is [id, kind, validates, outcome]: kind is "proc" *)
(* or "func"; validates tells whether its payload type T has Validate on the *)
(* value, on the pointer, or not at all; outcome is what the user code does. *)
(* A payload is "good", "undecodable" or "invalid" (it decodes, and Validate *)
(* rejects it).                                                              *)

\* unmarshalAndValidate that asks the pointer first: the method set of *T holds
\* the methods of T, so a type that validates on the value is validated
\* through the pointer
unmarshalAndValidate_pointerFirst(log, h, payload) ==
    LET decoded == Append(log, Ev("Unmarshal", h.id, <<>>, <<>>, Nil, payload))
        validated == Append(decoded, Ev("Validate", h.id, <<>>, <<>>, Nil, "pointer"))
    IN  IF payload = "undecodable"
        THEN [log |-> decoded, err |-> Wrap("unmarshalError", Err("decode", ""))]
        ELSE IF h.validates \in {"value", "pointer"}
             THEN IF payload = "invalid"
                  THEN [log |-> validated, err |-> Wrap("validationError", Err("invalid", ""))]
                  ELSE [log |-> validated, err |-> Nil]
             ELSE [log |-> decoded, err |-> Nil]

\* unmarshalAndValidate: decode, then Validate on the value if T has it, else
\* on the pointer if *T has it. The result is [log, err].
unmarshalAndValidate(log, h, payload) ==
    LET decoded == Append(log, Ev("Unmarshal", h.id, <<>>, <<>>, Nil, payload))
        validated(on) == Append(decoded, Ev("Validate", h.id, <<>>, <<>>, Nil, on))
    IN  IF payload = "undecodable"
        THEN [log |-> decoded, err |-> Wrap("unmarshalError", Err("decode", ""))]
        ELSE IF h.validates = "value"
             THEN IF payload = "invalid"
                  THEN [log |-> validated("value"), err |-> Wrap("validationError", Err("invalid", ""))]
                  ELSE [log |-> validated("value"), err |-> Nil]
             ELSE IF h.validates = "pointer"
                  THEN IF payload = "invalid"
                       THEN [log |-> validated("pointer"), err |-> Wrap("validationError", Err("invalid", ""))]
                       ELSE [log |-> validated("pointer"), err |-> Nil]
                  ELSE [log |-> decoded, err |-> Nil]

\* procInvoker that runs the handler before it looks at the decoding result
procInvoker_runsFirst(log, ctx, h, payload) ==
    LET u == unmarshalAndValidate(log, h, payload)
        ran == Append(u.log, Ev("Run", h.id, <<>>, ctx, Nil, payload))
    IN  IF u.err # Nil
        THEN [log |-> ran, result |-> "", err |-> u.err]
        ELSE IF h.outcome = "err"
             THEN [log |-> ran, result |-> "", err |-> Err("handler", h.id)]
             ELSE [log |-> ran, result |-> "{}", err |-> Nil]

\* the invoker RegisterProc stores. The result is [log, result, err].
procInvoker(log, ctx, h, payload) ==
    LET u == unmarshalAndValidate(log, h, payload)
        ran == Append(u.log, Ev("Run", h.id, <<>>, ctx, Nil, payload))
    IN  IF u.err # Nil
        THEN [log |-> u.log, result |-> "", err |-> u.err]
        ELSE IF h.outcome = "err"
             THEN [log |-> ran, result |-> "", err |-> Err("handler", h.id)]
             ELSE [log |-> ran, result |-> "{}", err |-> Nil]

\* the value Call returns when it returns no error: f1 returns a struct with
\* one exported int field, any other Func a string; a Func whose outcome is
\* "badresult" returns a value encoding/json has no encoding for
Returns(h) ==
    IF h.outcome = "badresult"
    THEN [t |-> "chan"]
    ELSE IF h.id = "f1"
         THEN [t |-> "struct", Value |-> 42]
         ELSE [t |-> "string", s |-> "ok"]

\* json.Marshal: [ok, json]
jsonMarshal(v) ==
    IF v.t = "struct"
    THEN [ok |-> TRUE, json |-> "{\"Value\":" \o ToString(v.Value) \o "}"]
    ELSE IF v.t = "string"
         THEN [ok |-> TRUE, json |-> "\"" \o v.s \o "\""]
         ELSE [ok |-> FALSE, json |-> ""]

\* funcInvoker that returns the empty object, as the Proc invoker does
funcInvoker_emptyObject(log, ctx, h, payload) ==
    LET u == unmarshalAndValidate(log, h, payload)
        called == Append(u.log, Ev("Call", h.id, <<>>, ctx, Nil, payload))
    IN  IF u.err # Nil
        THEN [log |-> u.log, result |-> "", err |-> u.err]
        ELSE IF h.outcome = "err"
             THEN [log |-> called, result |-> "", err |-> Err("handler", h.id)]
             ELSE [log |-> called, result |-> "{}", err |-> Nil]

\* funcInvoker that reports a result it cannot marshal as an unmarshal failure
funcInvoker_marshalAsUnmarshal(log, ctx, h, payload) ==
    LET u == unmarshalAndValidate(log, h, payload)
        called == Append(u.log, Ev("Call", h.id, <<>>, ctx, Nil, payload))
        marshaled == Append(called, Ev("Marshal", h.id, <<>>, <<>>, Nil, ""))
        resultJSON == jsonMarshal(Returns(h))
    IN  IF u.err # Nil
        THEN [log |-> u.log, result |-> "", err |-> u.err]
        ELSE IF h.outcome = "err"
             THEN [log |-> called, result |-> "", err |-> Err("handler", h.id)]
             ELSE IF ~resultJSON.ok
                  THEN [log |-> marshaled, result |-> "", err |-> Wrap("unmarshalError", Err("json", h.id))]
                  ELSE [log |-> marshaled, result |-> resultJSON.json, err |-> Nil]

\* the invoker RegisterFunc stores. The result is [log, result, err].
funcInvoker(log, ctx, h, payload) ==
    LET u == unmarshalAndValidate(log, h, payload)
        called == Append(u.log, Ev("Call", h.id, <<>>, ctx, Nil, payload))
        marshaled == Append(called, Ev("Marshal", h.id, <<>>, <<>>, Nil, ""))
        resultJSON == jsonMarshal(Returns(h))
    IN  IF u.err # Nil
        THEN [log |-> u.log, result |-> "", err |-> u.err]
        ELSE IF h.outcome = "err"
             THEN [log |-> called, result |-> "", err |-> Err("handler", h.id)]
             ELSE IF ~resultJSON.ok
                  THEN [log |-> marshaled, result |-> "", err |-> Wrap("marshal result", Err("json", h.id))]
                  ELSE [log |-> marshaled, result |-> resultJSON.json, err |-> Nil]

invoke(log, ctx, h, payload) ==
    IF h.kind = "proc"
    THEN procInvoker(log, ctx, h, payload)
    ELSE funcInvoker(log, ctx, h, payload)

-----------------------------------------------------------------------------
(* Process.  A raw message is [fmt, fields, parse, key, payload, replier]:   *)
(* its wire format and the fields a view of it has, whether the matched      *)
(* source's Parse accepts it, and the key, payload and replier ("none",      *)
(* "acks" or "errs") of the Message Parse returns.  The result is            *)
(* [log, ret, src, stored].                                                  *)

\* dispatch that calls Fail and then returns the handler's error itself
dispatch_returnsHandlerErr(log, ref, raw) ==
    LET parsed == Append(log, Ev("Parse", SourceAt(ref).name, Pos(ref), <<>>, Nil, ""))
        p == callOnParse(parsed, Background, ref, raw.key)
        dispatched == callOnDispatch(p.log, p.ctx, ref, raw.key)
        r == invoke(dispatched, p.ctx, handlers[raw.key], raw.payload)
        hooked == IF r.err # Nil
                  THEN callOnFailure(r.log, p.ctx, ref, raw.key, r.err)
                  ELSE callOnSuccess(r.log, p.ctx, ref, raw.key)
    IN  IF raw.parse = "fail"
        THEN handleParseError(parsed, Background, ref, Err("parse", ""))
        ELSE IF raw.key \notin DOMAIN handlers
             THEN handleNoHandler(p.log, p.ctx, ref, raw.key, raw.replier)
             ELSE IF ErrorsAs(r.err, "unmarshalError")
                  THEN handleUnmarshalError(r.log, p.ctx, ref, raw.key,
                                            Wrapped(r.err, "unmarshalError"), raw.replier)
                  ELSE IF ErrorsAs(r.err, "validationError")
                       THEN handleValidationError(r.log, p.ctx, ref, raw.key,
                                                  Wrapped(r.err, "validationError"), raw.replier)
                       ELSE IF raw.replier # "none"
                            THEN IF r.err # Nil
                                 THEN [log |-> replierFail(hooked, p.ctx, raw.replier, r.err).log, ret |-> r.err]
                                 ELSE replierReply(hooked, p.ctx, raw.replier, r.result)
                            ELSE [log |-> hooked, ret |-> r.err]

\* dispatch that hands every error of the invoker to the unmarshal decision
dispatch_interceptsAll(log, ref, raw) ==
    LET parsed == Append(log, Ev("Parse", SourceAt(ref).name, Pos(ref), <<>>, Nil, ""))
        p == callOnParse(parsed, Background, ref, raw.key)
        dispatched == callOnDispatch(p.log, p.ctx, ref, raw.key)
        r == invoke(dispatched, p.ctx, handlers[raw.key], raw.payload)
        hooked == callOnSuccess(r.log, p.ctx, ref, raw.key)
    IN  IF raw.parse = "fail"
        THEN handleParseError(parsed, Background, ref, Err("parse", ""))
        ELSE IF raw.key \notin DOMAIN handlers
             THEN handleNoHandler(p.log, p.ctx, ref, raw.key, raw.replier)
             ELSE IF ErrorsAs(r.err, "validationError")
                  THEN handleValidationError(r.log, p.ctx, ref, raw.key,
                                             Wrapped(r.err, "validationError"), raw.replier)
                  ELSE IF r.err # Nil
                       THEN handleUnmarshalError(r.log, p.ctx, ref, raw.key, r.err, raw.replier)
                       ELSE IF raw.replier # "none"
                            THEN replierReply(hooked, p.ctx, raw.replier, r.result)
                            ELSE [log |-> hooked, ret |-> Nil]

\* dispatch that fires the OnDispatch hooks once the invoker has returned
dispatch_lateOnDispatch(log, ref, raw) ==
    LET parsed == Append(log, Ev("Parse", SourceAt(ref).name, Pos(ref), <<>>, Nil, ""))
        p == callOnParse(parsed, Background, ref, raw.key)
        r == invoke(p.log, p.ctx, handlers[raw.key], raw.payload)
        dispatched == callOnDispatch(r.log, p.ctx, ref, raw.key)
        hooked == IF r.err # Nil
                  THEN callOnFailure(dispatched, p.ctx, ref, raw.key, r.err)
                  ELSE callOnSuccess(dispatched, p.ctx, ref, raw.key)
    IN  IF raw.parse = "fail"
        THEN handleParseError(parsed, Background, ref, Err("parse", ""))
        ELSE IF raw.key \notin DOMAIN handlers
             THEN handleNoHandler(p.log, p.ctx, ref, raw.key, raw.replier)
             ELSE IF ErrorsAs(r.err, "unmarshalError")
                  THEN handleUnmarshalError(dispatched, p.ctx, ref, raw.key,
                                            Wrapped(r.err, "unmarshalError"), raw.replier)
                  ELSE IF ErrorsAs(r.err, "validationError")
                       THEN handleValidationError(dispatched, p.ctx, ref, raw.key,
                                                  Wrapped(r.err, "validationError"), raw.replier)
                       ELSE IF raw.replier # "none"
                            THEN IF r.err # Nil
                                 THEN replierFail(hooked, p.ctx, raw.replier, r.err)
                                 ELSE replierReply(hooked, p.ctx, raw.replier, r.result)
                            ELSE [log |-> hooked, ret |-> r.err]

\* Process from source.Parse on, for the source at ref
dispatch(log, ref, raw) ==
    LET parsed == Append(log, Ev("Parse", SourceAt(ref).name, Pos(ref), <<>>, Nil, ""))
        replied(p, r, hooked) ==
            IF raw.replier # "none"
            THEN IF r.err # Nil
                 THEN replierFail(hooked, p.ctx, raw.replier, r.err)
                 ELSE replierReply(hooked, p.ctx, raw.replier, r.result)
            ELSE [log |-> hooked, ret |-> r.err]
        invoked(p, r) ==
            IF ErrorsAs(r.err, "unmarshalError")
            THEN handleUnmarshalError(r.log, p.ctx, ref, raw.key,
                                      Wrapped(r.err, "unmarshalError"), raw.replier)
            ELSE IF ErrorsAs(r.err, "validationError")
                 THEN handleValidationError(r.log, p.ctx, ref, raw.key,
                                            Wrapped(r.err, "validationError"), raw.replier)
                 ELSE replied(p, r, IF r.err # Nil
                                    THEN callOnFailure(r.log, p.ctx, ref, raw.key, r.err)
                                    ELSE callOnSuccess(r.log, p.ctx, ref, raw.key))
        onParsed(p) ==
            IF raw.key \notin DOMAIN handlers
            THEN handleNoHandler(p.log, p.ctx, ref, raw.key, raw.replier)
            ELSE invoked(p, invoke(callOnDispatch(p.log, p.ctx, ref, raw.key), p.ctx,
                                   handlers[raw.key], raw.payload))
    IN  IF raw.parse = "fail"
        THEN handleParseError(parsed, Background, ref, Err("parse", ""))
        ELSE onParsed(callOnParse(parsed, Background, ref, raw.key))

\* Process once lastMatch was loaded as lm
ProcessLoaded(lm, raw) ==
    LET result(m, d) == [log |-> d.log, ret |-> d.ret, src |-> m.src, stored |-> m.stored]
        matched(m) == result(m, IF m.src = <<>>
                                THEN handleNoSource(m.log, Background)
                                ELSE dispatch(m.log, m.src[1], raw))
    IN  matched(matchLoaded(lm, raw))

-----------------------------------------------------------------------------
(* Inputs *)

\* a source with no optional hook interface
PlainSource(name, disc) == [name |-> name, disc |-> disc, caps |-> {}, errs |-> {}]

\* the sources registered when the matcher is exercised: two specific ones
\* and one whose discriminator has no checks
MatchSources == {PlainSource("A", {"a"}), PlainSource("B", {"b"}), PlainSource("Z", {})}

SideHooks == {"OnParse", "OnDispatch", "OnSuccess", "OnFailure"}

DecisionHooks == {"OnNoHandler", "OnUnmarshalError", "OnValidationError"}

\* the sources registered when the hook chain is exercised: one with no hook
\* interface, one with all of them (its decision hooks return nil)
HookSources == {PlainSource("S", {"a"}),
                [name |-> "H", disc |-> {"a"}, caps |-> SideHooks \cup DecisionHooks, errs |-> {}]}

Procs == [id : {"p1", "p2"}, kind : {"proc"}, validates : {"none", "value", "pointer"},
          outcome : {"ok", "err"}]

Funcs == [id : {"f1", "f2"}, kind : {"func"}, validates : {"none", "value", "pointer"},
          outcome : {"ok", "err", "badresult"}]

\* sequences over S of length at most n
RECURSIVE SeqsUpTo(_, _)
SeqsUpTo(S, n) ==
    IF n = 0
    THEN {<<>>}
    ELSE LET shorter == SeqsUpTo(S, n - 1)
         IN  shorter \cup {Append(q, x) : q \in shorter, x \in S}

\* lists of global hooks that return nothing (or nil), of at most MaxHooks
\* hooks, no hook registered twice
HookLists ==
    {q \in SeqsUpTo([id : {"g1", "g2"}, fails : {FALSE}], MaxHooks) :
        \A i, j \in 1..Len(q) : i # j => q[i] # q[j]}

NoHooks ==
    [onParse |-> <<>>, onDispatch |-> <<>>, onSuccess |-> <<>>, onFailure |-> <<>>,
     onNoSource |-> <<>>, onParseError |-> <<>>, onNoHandler |-> <<>>,
     onUnmarshalError |-> <<>>, onValidationError |-> <<>>]

\* messages that differ in what the inspectors and discriminators see
MatchMsgs ==
    [fmt : Formats, fields : SUBSET Fields, parse : {"ok"}, key : {"k1"},
     payload : {"good"}, replier : {"none"}]

\* messages that one source matches and that differ in what happens after:
\* Parse fails (no Message, so nothing else is read), or it returns a Message
\* whose key has no handler (the payload is not read) or has one
HookMsgs ==
    LET all == [fmt : {"json"}, fields : {{"a"}}, parse : {"ok", "fail"},
                key : {"k1", "k2", "k3"}, payload : {"good", "undecodable"},
                replier : {"none", "acks"}]
    IN  {m \in all : /\ m.parse = "fail" => m.key = "k1" /\ m.payload = "good" /\ m.replier = "none"
                     /\ m.key = "k3" => m.payload = "good"}

\* the sources registered when the decision hooks are exercised: one with no
\* hook interface, one whose decision hooks return nil, one whose decision
\* hooks return an error
DecideSources ==
    HookSources \cup {[name |-> "E", disc |-> {"a"}, caps |-> SideHooks \cup DecisionHooks,
                       errs |-> DecisionHooks]}

\* lists of at most MaxHooks global decision hooks, named g1, g2, ... in
\* registration order, each returning nil or an error
DecisionLists ==
    UNION {{[i \in 1..n |-> [id |-> "g" \o ToString(i), fails |-> b[i]]] : b \in [1..n -> BOOLEAN]} :
              n \in 0..MaxHooks}

\* handlers of the decision hooks' router: k1 a Proc that succeeds and whose
\* payload type validates, k2 a Proc that fails, k4 a Func that returns a
\* struct and whose payload type validates on the pointer, k5 a Func that
\* returns a string, k6 a Func whose result cannot be encoded; k3 has none
DecideHandlers ==
    [k \in {"k1", "k2", "k4", "k5", "k6"} |->
        CASE k = "k1" -> [id |-> "p1", kind |-> "proc", validates |-> "value", outcome |-> "ok"]
          [] k = "k2" -> [id |-> "p2", kind |-> "proc", validates |-> "none", outcome |-> "err"]
          [] k = "k4" -> [id |-> "f1", kind |-> "func", validates |-> "pointer", outcome |-> "ok"]
          [] k = "k5" -> [id |-> "f2", kind |-> "func", validates |-> "none", outcome |-> "ok"]
          [] k = "k6" -> [id |-> "f3", kind |-> "func", validates |-> "none", outcome |-> "badresult"]]

\* messages that differ in how the call ends: no source matches (nothing else
\* is read), Parse fails (no Message), the key has no handler (the payload is
\* not read), the payload is rejected before the handler runs (by a handler
\* whose type validates), or the handler runs; with no Replier, one that
\* returns nil and one that returns an error
DecideMsgs ==
    LET all == [fmt : {"json"}, fields : {{"a"}, {}}, parse : {"ok", "fail"},
                key : {"k1", "k2", "k3", "k4", "k5", "k6"},
                payload : {"good", "undecodable", "invalid"},
                replier : {"none", "acks", "errs"}]
        plain(m) == m.key = "k1" /\ m.payload = "good" /\ m.replier = "none"
    IN  {m \in all : /\ m.fields = {} => m.parse = "ok" /\ plain(m)
                     /\ m.parse = "fail" => plain(m)
                     /\ m.key = "k3" => m.payload = "good"
                     /\ m.payload # "good" => m.key \in {"k1", "k4"}}

ProcIds == {"c1", "c2"}

Idle == [pc |-> "idle", raw |-> <<>>, lm |-> <<>>]

-----------------------------------------------------------------------------
(* Registration *)

\* the number of sources registered
TotalSources == Len(defaultSources) +
                LET RECURSIVE sum(_)
                    sum(i) == IF i > Len(groups) THEN 0 ELSE Len(groups[i].sources) + sum(i + 1)
                IN  sum(1)

\* Registration comes before the first Process call: "Do not call AddSource,
\* AddGroup, or Register after calling Process."
Configuring == call = <<>> /\ \A c \in ProcIds : procs[c].pc = "idle"

\* Router.AddSource
AddSource(s) ==
    /\ Configuring
    /\ TotalSources < MaxSources
    /\ defaultSources' = Append(defaultSources, s)
    /\ UNCHANGED <<defaultInspector, groups, handlers, hooks, lastMatch, call, procs, registrations>>

\* Router.AddGroup
AddGroup(insp, srcs) ==
    /\ Configuring
    /\ Len(groups) < MaxGroups
    /\ TotalSources + Len(srcs) <= MaxSources
    /\ groups' = Append(groups, [inspector |-> insp, sources |-> srcs])
    /\ UNCHANGED <<defaultInspector, defaultSources, handlers, hooks, lastMatch, call, procs,
                   registrations>>

\* withHandler that keeps the handler a key already has
withHandler_firstWins(key, h) ==
    [k \in DOMAIN handlers \cup {key} |-> IF k \in DOMAIN handlers THEN handlers[k] ELSE h]

\* the handler map after r.handlers[key] = h
withHandler(key, h) ==
    [k \in DOMAIN handlers \cup {key} |-> IF k = key THEN h ELSE handlers[k]]

\* RegisterProc
RegisterProc(key, p) ==
    /\ Configuring
    /\ Len(registrations) < MaxRegistrations
    /\ handlers' = withHandler(key, p)
    /\ registrations' = Append(registrations, [key |-> key, h |-> p])
    /\ UNCHANGED <<defaultInspector, defaultSources, groups, hooks, lastMatch, call, procs>>

\* RegisterFunc
RegisterFunc(key, f) ==
    /\ Configuring
    /\ Len(registrations) < MaxRegistrations
    /\ handlers' = withHandler(key, f)
    /\ registrations' = Append(registrations, [key |-> key, h |-> f])
    /\ UNCHANGED <<defaultInspector, defaultSources, groups, hooks, lastMatch, call, procs>>

-----------------------------------------------------------------------------
(* Process *)

\* what is kept of a finished call: the message, lastMatch as the call loaded
\* it and as it was just before the call's search, and the result
Finished(by, lm, raw, r) ==
    <<[by |-> by, raw |-> raw, before |-> lm, at |-> lastMatch,
       log |-> r.log, ret |-> r.ret, src |-> r.src]>>

\* Process that drops a handler from the map once its key was dispatched
Process_consumesHandler(raw) ==
    LET r == ProcessLoaded(lastMatch, raw)
    IN  /\ \A c \in ProcIds : procs[c].pc = "idle"
        /\ lastMatch' = IF r.stored # <<>> THEN r.stored ELSE lastMatch
        /\ call' = Finished("main", lastMatch, raw, r)
        /\ handlers' = IF r.src # <<>> /\ raw.parse = "ok"
                       THEN [k \in DOMAIN handlers \ {raw.key} |-> handlers[k]]
                       ELSE handlers
        /\ UNCHANGED <<defaultInspector, defaultSources, groups, hooks, procs, registrations>>

\* Process that records the matched source once its Parse has succeeded
Process_storesAfterParse(raw) ==
    LET r == ProcessLoaded(lastMatch, raw)
    IN  /\ \A c \in ProcIds : procs[c].pc = "idle"
        /\ lastMatch' = IF r.stored # <<>> /\ raw.parse = "ok" THEN r.stored ELSE lastMatch
        /\ call' = Finished("main", lastMatch, raw, r)
        /\ UNCHANGED <<config, procs, registrations>>

\* Router.Process, run from call to return with no other call in between
Process(raw) ==
    LET returns(r) ==
            /\ \A c \in ProcIds : procs[c].pc = "idle"
            /\ lastMatch' = IF r.stored # <<>> THEN r.stored ELSE lastMatch
            /\ call' = Finished("main", lastMatch, raw, r)
            /\ UNCHANGED <<config, procs, registrations>>
    IN  returns(ProcessLoaded(lastMatch, raw))

\* Router.Process called concurrently, up to the atomic load of lastMatch
Load(c, raw) ==
    /\ procs[c].pc = "idle"
    /\ procs' = [procs EXCEPT ![c] = [pc |-> "loaded", raw |-> raw, lm |-> lastMatch]]
    /\ UNCHANGED <<config, lastMatch, call, registrations>>

\* the rest of a concurrent call: the search on the value loaded, the atomic
\* store of the full search, and everything after match, which touches no
\* router state
Finish(c) ==
    LET returns(r) ==
            /\ procs[c].pc = "loaded"
            /\ lastMatch' = IF r.stored # <<>> THEN r.stored ELSE lastMatch
            /\ call' = Finished(c, procs[c].lm, procs[c].raw, r)
            /\ procs' = [procs EXCEPT ![c] = Idle]
            /\ UNCHANGED <<config, registrations>>
    IN  returns(ProcessLoaded(procs[c].lm, procs[c].raw))

-----------------------------------------------------------------------------
(* Specifications *)

\* the state after New(opts...) and the registrations given
InitRouter(insp, dsrcs, grps, hdl, hk) ==
    /\ defaultInspector = insp
    /\ defaultSources = dsrcs
    /\ groups = grps
    /\ handlers = hdl
    /\ hooks = hk
    /\ lastMatch = <<>>
    /\ call = <<>>
    /\ procs = [c \in ProcIds |-> Idle]
    /\ registrations = <<>>

OneProc == [k \in {"k1"} |-> [id |-> "p1", kind |-> "proc", validates |-> "none", outcome |-> "ok"]]

\* The matcher: a router with the default inspector or WithInspector(P), no
\* hooks and one Proc; sources and groups are then registered and messages
\* processed one at a time.
InitMatch == \E insp \in Inspectors : InitRouter(insp, <<>>, <<>>, OneProc, NoHooks)

NextMatch ==
    \/ \E s \in MatchSources : AddSource(s)
    \/ \E insp \in Inspectors, srcs \in SeqsUpTo(MatchSources, MaxSources) : AddGroup(insp, srcs)
    \/ \E raw \in MatchMsgs : Process(raw)

SpecMatch == InitMatch /\ [][NextMatch]_vars

Spec == SpecMatch

\* Concurrent calls: registration is finished (at most MaxSources default
\* sources, at most one custom group of one source, read by the custom
\* inspector), and two callers run Process on the router at the same time, on
\* JSON messages with field a and with or without field b, and a message in
\* the custom format with field b.
ConcMsgs ==
    {raw \in MatchMsgs : \/ raw.fmt = "json" /\ "a" \in raw.fields
                         \/ raw.fmt = "proto" /\ raw.fields = {"b"}}

InitConc ==
    \E dsrcs \in SeqsUpTo(MatchSources, MaxSources),
       grps \in {<<>>} \cup {<<[inspector |-> "P", sources |-> <<s>>]>> : s \in MatchSources} :
        InitRouter("J", dsrcs, grps, OneProc, NoHooks)

NextConc ==
    \/ \E c \in ProcIds, raw \in ConcMsgs : Load(c, raw)
    \/ \E c \in ProcIds : Finish(c)

SpecConc == InitConc /\ [][NextConc]_vars

\* The refresh of lastMatch: registration is finished as for the concurrent
\* calls, and messages of every shape are processed one at a time.
InitRefresh == InitConc

NextRefresh == \E raw \in MatchMsgs : Process(raw)

SpecRefresh == InitRefresh /\ [][NextRefresh]_vars

\* The hook chain: one source, with or without the optional hook interfaces,
\* a Proc that succeeds for k1 and one that fails for k2, and any lists of
\* global OnParse, OnDispatch, OnSuccess and OnFailure hooks (OnSuccess and
\* OnFailure never fire in the same call: the two lists are registered alike).
TwoProcs ==
    [k \in {"k1", "k2"} |->
        IF k = "k1"
        THEN [id |-> "p1", kind |-> "proc", validates |-> "none", outcome |-> "ok"]
        ELSE [id |-> "p2", kind |-> "proc", validates |-> "none", outcome |-> "err"]]

InitHooks ==
    \E s \in HookSources, ps \in HookLists, ds \in HookLists, ss \in HookLists :
        InitRouter("J", <<s>>, <<>>, TwoProcs,
                   [NoHooks EXCEPT !.onParse = ps, !.onDispatch = ds,
                                   !.onSuccess = ss, !.onFailure = ss])

NextHooks == \E raw \in HookMsgs : Process(raw)

SpecHooks == InitHooks /\ [][NextHooks]_vars

\* The decision hooks and the Replier: one source, with or without its own
\* hooks, one list of global hooks registered for each decision kind (a call
\* reaches one kind only), with or without a global OnSuccess and OnFailure
\* hook, and the handlers of DecideHandlers.
InitDecide ==
    \E s \in DecideSources, dl \in DecisionLists, sl \in {<<>>, <<[id |-> "g1", fails |-> FALSE]>>} :
        InitRouter("J", <<s>>, <<>>, DecideHandlers,
                   [NoHooks EXCEPT !.onSuccess = sl, !.onFailure = sl,
                                   !.onNoSource = dl, !.onParseError = dl, !.onNoHandler = dl,
                                   !.onUnmarshalError = dl, !.onValidationError = dl])

NextDecide == \E raw \in DecideMsgs : Process(raw)

SpecDecide == InitDecide /\ [][NextDecide]_vars

\* Parse failures: any default sources out of one with every hook interface
\* and one whose discriminator has no checks, a list of global OnParseError
\* hooks, one global OnParse and one global OnDispatch hook, and messages
\* whose Parse succeeds or fails.
ParseSources == {[name |-> "H", disc |-> {"a"}, caps |-> SideHooks \cup DecisionHooks, errs |-> {}],
                 PlainSource("Z", {})}

ParseMsgs ==
    [fmt : {"json"}, fields : {{"a"}, {}}, parse : {"ok", "fail"}, key : {"k1"},
     payload : {"good"}, replier : {"none", "acks"}]

InitParse ==
    \E dsrcs \in SeqsUpTo(ParseSources, MaxSources), pl \in DecisionLists :
        InitRouter("J", dsrcs, <<>>, OneProc,
                   [NoHooks EXCEPT !.onParse = <<[id |-> "g1", fails |-> FALSE]>>,
                                   !.onDispatch = <<[id |-> "g1", fails |-> FALSE]>>,
                                   !.onParseError = pl])

NextParse == \E raw \in ParseMsgs : Process(raw)

SpecParse == InitParse /\ [][NextParse]_vars

\* The handler registry: a router with two default sources and a hook of two
\* kinds, on which up to MaxRegistrations handlers are registered for the
\* keys of Keys, a key possibly more than once, before messages that end in
\* every way but a rejected payload are processed.
NoHandlers == [k \in {} |-> Nil]

RegProcs == {p \in Procs : p.validates = "none" /\ (p.id = "p1" <=> p.outcome = "ok")}

RegFuncs == {f \in Funcs : f.validates = "none" /\ f.id = "f1" /\ f.outcome = "ok"}

RegMsgs ==
    LET all == [fmt : Formats, fields : {{"a"}, {}}, parse : {"ok", "fail"}, key : Keys,
                payload : {"good"}, replier : {"none"}]
    IN  {m \in all : /\ m.fmt = "proto" => m.fields = {} /\ m.parse = "ok" /\ m.key = "k1"
                     /\ m.parse = "fail" => m.key = "k1"}

InitRegister ==
    InitRouter("J", <<PlainSource("A", {"a"}), PlainSource("Z", {})>>, <<>>, NoHandlers,
               [NoHooks EXCEPT !.onNoSource = <<[id |-> "g1", fails |-> FALSE]>>,
                               !.onFailure = <<[id |-> "g1", fails |-> FALSE]>>])

NextRegister ==
    \/ \E key \in Keys, p \in RegProcs : RegisterProc(key, p)
    \/ \E key \in Keys, f \in RegFuncs : RegisterFunc(key, f)
    \/ \E raw \in RegMsgs : Process(raw)

SpecRegister == InitRegister /\ [][NextRegister]_vars

-----------------------------------------------------------------------------
(* What the claims speak of *)

\* every position a registered source has
Registered ==
    {Ref(DefaultGroupIdx, i) : i \in 0..(Len(defaultSources) - 1)}
        \cup UNION {{Ref(g, i) : i \in 0..(Len(groups[g + 1].sources) - 1)} : g \in 0..(Len(groups) - 1)}

\* the inspector of the source's group reads raw and the source's
\* discriminator is true of the view
Accepts(ref, raw) ==
    /\ Inspect(InspectorAt(ref), raw).ok
    /\ DiscMatch(SourceAt(ref).disc, Inspect(InspectorAt(ref), raw).view)

Matching(raw) == {ref \in Registered : Accepts(ref, raw)}

\* registration order: the default group, then the groups in AddGroup order,
\* each in the order of its sources
Before(r1, r2) ==
    \/ r1.groupIdx < r2.groupIdx
    \/ r1.groupIdx = r2.groupIdx /\ r1.sourceIdx < r2.sourceIdx

\* the first matching source in registration order
FirstMatching(raw) ==
    CHOOSE ref \in Matching(raw) : \A other \in Matching(raw) \ {ref} : Before(ref, other)

\* the groups (the default group as DefaultGroupIdx, if it has sources) that
\* use the inspector
GroupsUsing(insp) ==
    {g \in 0..(Len(groups) - 1) : groups[g + 1].inspector = insp}
        \cup (IF Len(defaultSources) > 0 /\ defaultInspector = insp THEN {DefaultGroupIdx} ELSE {})

\* the entries of a log with the given op
Entries(log, op) == {i \in 1..Len(log) : log[i].op = op}

RanMatchAll(c) == Entries(c.log, "matchAll") # {}

-----------------------------------------------------------------------------
(* Claims about the matcher, checked under SpecMatch *)

C6_InspectOncePerCall ==
    call # <<>> =>
        LET c == call[1]
        IN  /\ \A insp \in Inspectors :
                   Cardinality({i \in Entries(c.log, "Inspect") : c.log[i].who = insp}) <= 1
            /\ \A j \in Entries(c.log, "Match") :
                   \E i \in Entries(c.log, "Inspect") :
                       i < j /\ c.log[i].who = InspectorAt(Ref(c.log[j].pos[1], c.log[j].pos[2]))
            /\ \A insp \in Inspectors :
                   (RanMatchAll(c) /\ GroupsUsing(insp) # {} /\ c.src = <<>>) =>
                       \E i \in Entries(c.log, "Inspect") : c.log[i].who = insp

\* C6 witness: the fast path missed because the inspector failed, the full
\* search then reached two groups that share that inspector, and the
\* inspector was invoked once
C6_Witness ==
    /\ call # <<>>
    /\ call[1].before # <<>>
    /\ RanMatchAll(call[1])
    /\ \E insp \in Inspectors :
           /\ Cardinality(GroupsUsing(insp)) >= 2
           /\ InspectorAt(call[1].before[1]) = insp
           /\ ~Inspect(insp, call[1].raw).ok
           /\ Cardinality({i \in Entries(call[1].log, "Inspect") : call[1].log[i].who = insp}) = 1

-----------------------------------------------------------------------------
(* Claims about concurrent calls, checked under SpecConc *)

-----------------------------------------------------------------------------
(* Claims about the hook chain, checked under SpecHooks *)

\* the callers of the entries of a log with the given op, in order
Whos(log, op) ==
    LET sub == SelectSeq(log, LAMBDA e : e.op = op)
    IN  [i \in 1..Len(sub) |-> sub[i].who]

\* the ids of a list of global hooks, in registration order
Ids(list) == [i \in 1..Len(list) |-> list[i].id]

\* the source's own hook of a kind, if it implements it
OwnHook(ref, op) == IF op \in SourceAt(ref).caps THEN <<SourceAt(ref).name>> ELSE <<>>

\* the call found a source and the source parsed the message
ParsedOk(c) == c.src # <<>> /\ c.raw.parse = "ok"

\* the entries that are handed the context of the request after OnParse
CtxOps == {"OnDispatch", "Run", "Call", "OnSuccess", "OnFailure", "OnNoHandler",
           "OnUnmarshalError", "OnValidationError", "Reply", "Fail"}

\* the call reached the handler, and what the invoker made of the payload
HandlerFound(c) == ParsedOk(c) /\ c.raw.key \in DOMAIN handlers

Rejected(c) ==
    \/ c.raw.payload = "undecodable"
    \/ c.raw.payload = "invalid" /\ handlers[c.raw.key].validates # "none"

\* C9: the global OnParse hooks run in registration order, each on the context
\* the one before returned, then the source's own OnParse hook on the chained
\* context; what it returns is the context of the handler and of every later
\* hook and Replier call.
C9_OnParseChain ==
    (call # <<>> /\ ParsedOk(call[1])) =>
        LET c == call[1]
            chain == Ids(hooks.onParse) \o OwnHook(c.src[1], "OnParse")
            parses == SelectSeq(c.log, LAMBDA e : e.op = "OnParse")
        IN  /\ Whos(c.log, "OnParse") = chain
            /\ \A i \in 1..Len(parses) : parses[i].ctx = SubSeq(chain, 1, i - 1)
            /\ \A k \in 1..Len(c.log) : c.log[k].op \in CtxOps => c.log[k].ctx = chain
            /\ HandlerFound(c) /\ ~Rejected(c) => Entries(c.log, "Run") # {}

\* C9 witness: two global OnParse hooks and the source's own, and the handler
\* and the replier got the context all three had added to
C9_Witness ==
    /\ call # <<>>
    /\ ParsedOk(call[1])
    /\ Len(hooks.onParse) = 2
    /\ "OnParse" \in SourceAt(call[1].src[1]).caps
    /\ \E i, j \in 1..Len(call[1].log) :
           /\ call[1].log[i].op = "Run"
           /\ call[1].log[i].ctx = <<hooks.onParse[1].id, hooks.onParse[2].id, "H">>
           /\ call[1].log[j].op = "Reply"
           /\ call[1].log[j].ctx = call[1].log[i].ctx

\* C10: at each of the points OnDispatch (a handler was found), OnSuccess (the
\* invoker returned no error) and OnFailure (the handler returned an error),
\* every global hook of the kind is called once, in registration order, and
\* then the source's own hook of the kind if it has one.
C10_SideEffectHooks ==
    (call # <<>> /\ HandlerFound(call[1])) =>
        LET c == call[1]
            ref == c.src[1]
            h == handlers[c.raw.key]
        IN  /\ Whos(c.log, "OnDispatch") = Ids(hooks.onDispatch) \o OwnHook(ref, "OnDispatch")
            /\ (~Rejected(c) /\ h.outcome = "ok") =>
                   Whos(c.log, "OnSuccess") = Ids(hooks.onSuccess) \o OwnHook(ref, "OnSuccess")
            /\ (~Rejected(c) /\ h.outcome # "ok") =>
                   /\ Whos(c.log, "OnFailure") = Ids(hooks.onFailure) \o OwnHook(ref, "OnFailure")
                   /\ \A i \in Entries(c.log, "OnFailure") : c.log[i].err = Err("handler", h.id)

\* C10 witness: two global OnSuccess hooks and the source's own all fired
\* after a handler that succeeded
C10_Witness ==
    /\ call # <<>>
    /\ HandlerFound(call[1])
    /\ Len(hooks.onSuccess) = 2
    /\ Len(hooks.onDispatch) = 2
    /\ Whos(call[1].log, "OnSuccess") = <<hooks.onSuccess[1].id, hooks.onSuccess[2].id, "H">>
    /\ Whos(call[1].log, "OnDispatch") = <<hooks.onDispatch[1].id, hooks.onDispatch[2].id, "H">>

-----------------------------------------------------------------------------
(* Claims about the decision hooks and the Replier, checked under SpecDecide *)

\* how a call ends, read off its message and the configuration: the decision
\* kind it reaches, or "handled" when the handler's own code ran
Outcome(c) ==
    IF c.src = <<>> THEN "OnNoSource"
    ELSE IF c.raw.parse = "fail" THEN "OnParseError"
    ELSE IF c.raw.key \notin DOMAIN handlers THEN "OnNoHandler"
    ELSE IF c.raw.payload = "undecodable" THEN "OnUnmarshalError"
    ELSE IF c.raw.payload = "invalid" /\ handlers[c.raw.key].validates # "none"
         THEN "OnValidationError"
    ELSE "handled"

\* the global hooks registered for a decision kind
GlobalsOf(kind) ==
    CASE kind = "OnNoSource" -> hooks.onNoSource
      [] kind = "OnParseError" -> hooks.onParseError
      [] kind = "OnNoHandler" -> hooks.onNoHandler
      [] kind = "OnUnmarshalError" -> hooks.onUnmarshalError
      [] kind = "OnValidationError" -> hooks.onValidationError

\* the hooks of the call's decision kind in evaluation order, global hooks by
\* registration and then the source's own, as [who, fails]
Applicable(c) ==
    LET kind == Outcome(c)
        gs == [i \in 1..Len(GlobalsOf(kind)) |->
                  [who |-> GlobalsOf(kind)[i].id, fails |-> GlobalsOf(kind)[i].fails]]
    IN  IF c.src # <<>> /\ kind \in SourceAt(c.src[1]).caps
        THEN Append(gs, [who |-> SourceAt(c.src[1]).name, fails |-> kind \in SourceAt(c.src[1]).errs])
        ELSE gs

\* the call ended at one of the three decision kinds a source can hook
Decided(c) == Outcome(c) \in DecisionHooks

\* C11: at a no-handler, unmarshal-failure or validation-failure outcome every
\* global hook of the kind and then the source's own hook of the kind is
\* invoked exactly once, whether or not an earlier one returned an error.
C11_DecisionHooksAllRun ==
    (call # <<>> /\ Decided(call[1])) =>
        Whos(call[1].log, Outcome(call[1])) =
            [i \in 1..Len(Applicable(call[1])) |-> Applicable(call[1])[i].who]

\* C11 witness: the first of two global hooks returned an error, and the
\* second and the source's own were still invoked
C11_Witness ==
    /\ call # <<>>
    /\ Decided(call[1])
    /\ Len(Applicable(call[1])) = 3
    /\ Applicable(call[1])[1].fails
    /\ Len(Whos(call[1].log, Outcome(call[1]))) = 3

\* the errors the hooks of the call's decision kind return, in evaluation order
HookErrors(c) ==
    LET failing == SelectSeq(Applicable(c), LAMBDA h : h.fails)
    IN  [i \in 1..Len(failing) |-> Err("hook", failing[i].who)]

\* C12: when no source matches, every OnNoSource hook is invoked, in
\* registration order, whether or not an earlier one returned an error, and the
\* first error returned is the result.
C12_OnNoSourceAllRun ==
    (call # <<>> /\ Outcome(call[1]) = "OnNoSource") =>
        /\ Whos(call[1].log, "OnNoSource") = Ids(hooks.onNoSource)
        /\ HookErrors(call[1]) # <<>> => call[1].ret = HookErrors(call[1])[1]

\* the error the router concluded the call with: what went to Replier.Fail if
\* Fail was called, else what Process returned
Concluded(c) ==
    IF Entries(c.log, "Fail") # {}
    THEN c.log[CHOOSE i \in Entries(c.log, "Fail") : TRUE].err
    ELSE c.ret

\* C13: at a no-handler, unmarshal-failure or validation-failure outcome the
\* concluded error is the error of the first hook, global hooks in registration
\* order and then the source's own, that returned one; without a Replier it is
\* what Process returns.
C13_FirstErrorWins ==
    (call # <<>> /\ Decided(call[1]) /\ HookErrors(call[1]) # <<>>) =>
        /\ Concluded(call[1]) = HookErrors(call[1])[1]
        /\ call[1].raw.replier = "none" => call[1].ret = HookErrors(call[1])[1]

\* C13 witness: the first global hook returned nil, the second an error, the
\* source's own hook another error, and Process returned the second hook's
C13_Witness ==
    /\ call # <<>>
    /\ Decided(call[1])
    /\ Len(Applicable(call[1])) = 3
    /\ ~Applicable(call[1])[1].fails
    /\ Applicable(call[1])[2].fails
    /\ Applicable(call[1])[3].fails
    /\ call[1].ret = Err("hook", "g2")

\* the four decision kinds of the documentation
DecisionKinds == DecisionHooks \cup {"OnNoSource"}

\* the error the router synthesizes for a decision kind when nothing decides
Fallback(c) ==
    CASE Outcome(c) = "OnNoSource" -> Err("no source matched message", "")
      [] Outcome(c) = "OnNoHandler" -> Err("no handler for key", c.raw.key)
      [] Outcome(c) = "OnUnmarshalError" -> <<[kind |-> "unmarshal payload", of |-> ""],
                                              [kind |-> "decode", of |-> ""]>>
      [] Outcome(c) = "OnValidationError" -> <<[kind |-> "validate payload", of |-> ""],
                                               [kind |-> "invalid", of |-> ""]>>

\* C14 as stated: at each of the four decision kinds Process returns a non-nil
\* error when no hook of the kind is registered, and nil when one hook
\* returning nil is registered.
C14_SkipFailAsymmetry ==
    (call # <<>> /\ Outcome(call[1]) \in DecisionKinds) =>
        LET gs == GlobalsOf(Outcome(call[1]))
        IN  /\ Len(gs) = 0 => call[1].ret # Nil
            /\ (Len(gs) = 1 /\ ~gs[1].fails) => call[1].ret = Nil

\* C14 amended: with no global hook of the kind the router concludes with a
\* non-nil error, the synthesized default unless the source's own hook returned
\* one, and Process returns it unless the message carries a Replier, whose Fail
\* then gets it; with one global hook returning nil Process returns nil
\* unless the source's own hook returned an error.
C14_SkipFailAsymmetryAmended ==
    (call # <<>> /\ Outcome(call[1]) \in DecisionKinds) =>
        LET c == call[1]
            gs == GlobalsOf(Outcome(c))
        IN  /\ Len(gs) = 0 =>
                   /\ Concluded(c) # Nil
                   /\ HookErrors(c) = <<>> => Concluded(c) = Fallback(c)
                   /\ c.raw.replier = "none" => c.ret = Concluded(c)
                   /\ c.raw.replier # "none" => Cardinality(Entries(c.log, "Fail")) = 1
            /\ (Len(gs) = 1 /\ ~gs[1].fails /\ HookErrors(c) = <<>>) => c.ret = Nil

\* C14 witness: a key with no handler and one global OnNoHandler hook, which
\* returned nil, as did the source's own: Process returned nil
C14_Witness ==
    /\ call # <<>>
    /\ Outcome(call[1]) = "OnNoHandler"
    /\ Len(hooks.onNoHandler) = 1
    /\ Len(Whos(call[1].log, "OnNoHandler")) = 2
    /\ HookErrors(call[1]) = <<>>
    /\ call[1].ret = Nil

\* C15 as stated: when at least one hook of the decision kind applies to the
\* message, the source's own hook counted, and no hook returned an error,
\* Process returns nil.
C15_SkipWhenAnyHook ==
    (call # <<>> /\ Decided(call[1]) /\ Applicable(call[1]) # <<>> /\ HookErrors(call[1]) = <<>>) =>
        call[1].ret = Nil

\* C15 amended: when at least one global hook of the decision kind is
\* registered and no hook invoked, global or the source's own, returned an
\* error, Process returns nil.
C15_SkipWhenGlobalHook ==
    (call # <<>> /\ Decided(call[1]) /\ Len(GlobalsOf(Outcome(call[1]))) >= 1
                /\ HookErrors(call[1]) = <<>>) =>
        call[1].ret = Nil

\* C15 witness: a payload that fails validation, two global OnValidationError
\* hooks and the source's own, all returning nil: Process returned nil
C15_Witness ==
    /\ call # <<>>
    /\ Outcome(call[1]) = "OnValidationError"
    /\ Len(hooks.onValidationError) = 2
    /\ Len(Whos(call[1].log, "OnValidationError")) = 3
    /\ HookErrors(call[1]) = <<>>
    /\ call[1].ret = Nil

\* no global hook of the call's decision kind is registered, and the matched
\* source implements the hook of that kind and returns nil from it
OnlySourceSkips(c) ==
    /\ Decided(c)
    /\ Len(GlobalsOf(Outcome(c))) = 0
    /\ Outcome(c) \in SourceAt(c.src[1]).caps
    /\ Outcome(c) \notin SourceAt(c.src[1]).errs

\* C16 as stated: with no global hook of the kind and a source hook that
\* returns nil, the source hook is invoked and Process returns the synthesized
\* default error.
C16_SourceHookCannotSkip ==
    (call # <<>> /\ OnlySourceSkips(call[1])) =>
        /\ Whos(call[1].log, Outcome(call[1])) = <<SourceAt(call[1].src[1]).name>>
        /\ call[1].ret = Fallback(call[1])

\* C16 amended: with no global hook of the kind and a source hook that returns
\* nil, the source hook is invoked and the router concludes with the
\* synthesized default error, not a skip: Process returns it when the message
\* carries no Replier, and hands it to Replier.Fail once when it carries one.
C16_SourceHookCannotSkipAmended ==
    (call # <<>> /\ OnlySourceSkips(call[1])) =>
        LET c == call[1]
        IN  /\ Whos(c.log, Outcome(c)) = <<SourceAt(c.src[1]).name>>
            /\ Concluded(c) = Fallback(c)
            /\ c.raw.replier = "none" => c.ret = Fallback(c)
            /\ c.raw.replier # "none" => Cardinality(Entries(c.log, "Fail")) = 1

\* C16 witness: a payload that fails validation, no global OnValidationError
\* hook, the source's own hook invoked and returning nil, no Replier: Process
\* returned the default validation error
C16_Witness ==
    /\ call # <<>>
    /\ OnlySourceSkips(call[1])
    /\ Outcome(call[1]) = "OnValidationError"
    /\ call[1].raw.replier = "none"
    /\ Whos(call[1].log, "OnValidationError") = <<"H">>
    /\ call[1].ret = Wrap("validate payload", Err("invalid", ""))

\* the positions of the Replier calls in a log
ReplierCalls(log) == Entries(log, "Reply") \cup Entries(log, "Fail")

\* C17: when the Message a source parsed carries a Replier, exactly one
\* Replier call, Reply or Fail, is made in the Process call, whatever follows
\* the parse (handler success or failure, no handler, unmarshal or validation
\* failure, decided as fail or as skip), and it is made after the OnSuccess and
\* OnFailure hooks.
C17_ReplierExactlyOnce ==
    (call # <<>> /\ ParsedOk(call[1]) /\ call[1].raw.replier # "none") =>
        /\ Cardinality(ReplierCalls(call[1].log)) = 1
        /\ \A i \in ReplierCalls(call[1].log) :
               \A j \in Entries(call[1].log, "OnSuccess") \cup Entries(call[1].log, "OnFailure") : j < i

\* what a Replier call returned: the replier "errs" returns an error from
\* Reply and from Fail, the replier "acks" returns nil
ReplierReturned(e) ==
    IF e.who = "errs"
    THEN Err("replier", IF e.op = "Fail" THEN "fail" ELSE "reply")
    ELSE Nil

\* C18: whenever Reply or Fail is called, Process returns what that call
\* returned: the Replier's error in place of the handler's or the hooks', and
\* nil when Fail returns nil although the handler, the decoding or the
\* validation failed.
C18_ReplierResultReturned ==
    call # <<>> =>
        \A i \in ReplierCalls(call[1].log) : call[1].ret = ReplierReturned(call[1].log[i])

\* C18 witness: the handler returned an error, Fail was called with it and
\* returned nil, and Process returned nil
C18_Witness ==
    /\ call # <<>>
    /\ Outcome(call[1]) = "handled"
    /\ call[1].raw.replier = "acks"
    /\ \E i \in Entries(call[1].log, "Fail") : call[1].log[i].err = Err("handler", "p2")
    /\ call[1].ret = Nil

\* the errors handed to Replier.Fail in a call, in order
FailArgs(log) ==
    LET fails == SelectSeq(log, LAMBDA e : e.op = "Fail")
    IN  [i \in 1..Len(fails) |-> fails[i].err]

\* C19: the error handed to Replier.Fail is the error the router concluded
\* with: after a handler failure the handler's own error (after a result that
\* cannot be encoded, the marshal error); after a no-handler, unmarshal or
\* validation outcome the first error a decision hook returned, and the
\* synthesized default when none returned one.
C19_FailGetsConcludedError ==
    (call # <<>> /\ ParsedOk(call[1]) /\ call[1].raw.replier # "none") =>
        LET c == call[1]
            h == handlers[c.raw.key]
        IN  /\ (Outcome(c) = "handled" /\ h.outcome = "err") =>
                   FailArgs(c.log) = <<Err("handler", h.id)>>
            /\ (Outcome(c) = "handled" /\ h.outcome = "badresult") =>
                   FailArgs(c.log) = <<Wrap("marshal result", Err("json", h.id))>>
            /\ (Decided(c) /\ HookErrors(c) # <<>>) => FailArgs(c.log) = <<HookErrors(c)[1]>>
            /\ (Decided(c) /\ HookErrors(c) = <<>>) =>
                   \A i \in 1..Len(FailArgs(c.log)) : FailArgs(c.log)[i] = Fallback(c)
            /\ (Decided(c) /\ Applicable(c) = <<>>) => FailArgs(c.log) = <<Fallback(c)>>

\* C19 witness: the payload could not be decoded, the second global
\* OnUnmarshalError hook returned an error, and Fail was called with it
C19_Witness ==
    /\ call # <<>>
    /\ Outcome(call[1]) = "OnUnmarshalError"
    /\ Len(hooks.onUnmarshalError) = 2
    /\ ~hooks.onUnmarshalError[1].fails
    /\ FailArgs(call[1].log) = <<Err("hook", "g2")>>

\* the payloads handed to Replier.Reply in a call, in order
ReplyArgs(log) ==
    LET replies == SelectSeq(log, LAMBDA e : e.op = "Reply")
    IN  [i \in 1..Len(replies) |-> replies[i].arg]

\* the JSON text of what the handlers of DecideHandlers return on success
ExpectedJSON(h) ==
    IF h.kind = "proc" THEN "{}"
    ELSE IF h.id = "f1" THEN "{\"Value\":42}"
    ELSE "\"ok\""

\* C20: when the handler succeeds and the Message carries a Replier, Reply is
\* called once, with the JSON encoding of the value a Func returned and with
\* the empty object {} for a Proc, and Fail is not called.
C20_ReplyGetsResultJSON ==
    (call # <<>> /\ Outcome(call[1]) = "handled" /\ call[1].raw.replier # "none"
                /\ handlers[call[1].raw.key].outcome = "ok") =>
        /\ ReplyArgs(call[1].log) = <<ExpectedJSON(handlers[call[1].raw.key])>>
        /\ Entries(call[1].log, "Fail") = {}

\* C20 witness: the Func that returns the struct {Value: 42} succeeded and
\* Reply was called with {"Value":42}
C20_Witness ==
    /\ call # <<>>
    /\ Outcome(call[1]) = "handled"
    /\ handlers[call[1].raw.key].id = "f1"
    /\ Entries(call[1].log, "Call") # {}
    /\ ReplyArgs(call[1].log) = <<"{\"Value\":42}">>
-----------------------------------------------------------------------------
(* Claims about the invoker and the error kinds, checked under SpecDecide *)

\* the places in a log where the user's handler ran
UserCode(log) == Entries(log, "Run") \cup Entries(log, "Call")

\* C21: the invoker decodes, then validates, then runs the user handler:
\* Validate is invoked only after a decoding that succeeded, the handler only
\* after a decoding that succeeded and a validation (when the type has one)
\* that passed, and a payload that fails either never reaches the handler,
\* whatever the decision hooks make of the failure.
C21_InvokerOrder ==
    (call # <<>> /\ HandlerFound(call[1])) =>
        LET c == call[1]
            h == handlers[c.raw.key]
            U == Entries(c.log, "Unmarshal")
            V == Entries(c.log, "Validate")
            R == UserCode(c.log)
        IN  /\ Cardinality(U) = 1
            /\ V # {} => /\ c.raw.payload # "undecodable"
                         /\ \A v \in V : \E u \in U : u < v
            /\ (c.raw.payload # "undecodable" /\ h.validates # "none") => Cardinality(V) = 1
            /\ R # {} => /\ c.raw.payload # "undecodable"
                         /\ \A r \in R : \E u \in U : u < r
                         /\ h.validates # "none" =>
                                /\ c.raw.payload = "good"
                                /\ \A r \in R : \E v \in V : v < r
            /\ Rejected(c) => R = {}
            /\ ~Rejected(c) => Cardinality(R) = 1

\* C21 witness: a payload that decoded and failed Validate, a hook that turned
\* the failure into a skip, and the handler never ran
C21_Witness ==
    /\ call # <<>>
    /\ Outcome(call[1]) = "OnValidationError"
    /\ Entries(call[1].log, "Validate") # {}
    /\ Entries(call[1].log, "OnValidationError") # {}
    /\ call[1].ret = Nil
    /\ UserCode(call[1].log) = {}

\* the kind a caller reads off an error without looking at its message: the
\* router's wrapper type found in its chain, if any
KindOf(e) ==
    IF ErrorsAs(e, "unmarshalError") THEN "UnmarshalFailed"
    ELSE IF ErrorsAs(e, "validationError") THEN "ValidationFailed"
    ELSE "none"

\* no hook of the call's decision kind is registered, global or the source's
Unhooked(c) == Applicable(c) = <<>>

\* C22: with no Replier and no hook of the kind, a payload that decodes and
\* fails Validate makes Process return a non-nil error of kind
\* ValidationFailed and an undecodable payload one of kind UnmarshalFailed,
\* and the error of a handler that failed has neither kind.
C22_ErrorKinds ==
    (call # <<>> /\ HandlerFound(call[1]) /\ call[1].raw.replier = "none") =>
        LET c == call[1]
        IN  /\ (Outcome(c) = "OnValidationError" /\ Unhooked(c)) =>
                   c.ret # Nil /\ KindOf(c.ret) = "ValidationFailed"
            /\ (Outcome(c) = "OnUnmarshalError" /\ Unhooked(c)) =>
                   c.ret # Nil /\ KindOf(c.ret) = "UnmarshalFailed"
            /\ (Outcome(c) = "handled" /\ c.ret # Nil) => KindOf(c.ret) = "none"

\* the entries of a log made by decision hooks of any kind
DecisionEntries(log) ==
    {i \in 1..Len(log) : log[i].op \in DecisionKinds \cup {"OnParseError"}}

\* the user handler ran and returned an error
HandlerFailed(c) ==
    HandlerFound(c) /\ ~Rejected(c) /\ handlers[c.raw.key].outcome = "err"

\* C23: when the user handler returns an error E and the message has no
\* Replier, the OnFailure hooks, global and then the source's own, are called
\* with E and Process returns E itself, whatever hooks are registered and
\* whatever they return; no decision hook is invoked.
C23_HandlerErrorNotIntercepted ==
    (call # <<>> /\ HandlerFailed(call[1]) /\ call[1].raw.replier = "none") =>
        LET c == call[1]
            E == Err("handler", handlers[c.raw.key].id)
        IN  /\ c.ret = E
            /\ Whos(c.log, "OnFailure") = Ids(hooks.onFailure) \o OwnHook(c.src[1], "OnFailure")
            /\ \A i \in Entries(c.log, "OnFailure") : c.log[i].err = E
            /\ DecisionEntries(c.log) = {}

\* C23 witness: decision hooks that return errors are registered for every
\* kind, the handler failed, the global and the source's OnFailure hook got
\* its error and Process returned it
C23_Witness ==
    /\ call # <<>>
    /\ HandlerFailed(call[1])
    /\ call[1].raw.replier = "none"
    /\ Len(hooks.onUnmarshalError) = 2
    /\ hooks.onUnmarshalError[1].fails
    /\ hooks.onNoHandler[1].fails
    /\ Len(Whos(call[1].log, "OnFailure")) = 2
    /\ call[1].ret = Err("handler", "p2")

-----------------------------------------------------------------------------
(* Claims about Parse failures, checked under SpecParse *)

\* the call found a source and the source's Parse failed
ParseFailed(c) == c.src # <<>> /\ c.raw.parse = "fail"

\* C24: when the selected source fails in Parse, nothing but the parse-error
\* hooks runs after it: no other source is inspected, matched or parsed, and
\* no OnParse hook, OnDispatch hook, handler or Replier is invoked. With no
\* parse-error hook Process returns the default error wrapping the parse
\* error, with hooks that all return nil it returns nil, and otherwise it
\* returns the first hook error.
C24_ParseFailureStops ==
    (call # <<>> /\ ParseFailed(call[1])) =>
        LET c == call[1]
            parseErr == Err("parse", "")
        IN  /\ Cardinality(Entries(c.log, "Parse")) = 1
            /\ \A i \in Entries(c.log, "Parse") :
                   /\ c.log[i].pos = Pos(c.src[1])
                   /\ \A j \in (i + 1)..Len(c.log) : c.log[j].op = "OnParseError"
            /\ \A j \in Entries(c.log, "OnParseError") : c.log[j].err = parseErr
            /\ Len(hooks.onParseError) = 0 =>
                   /\ c.ret # Nil
                   /\ ErrorsAs(c.ret, "parse failed for source")
                   /\ Wrapped(c.ret, "parse failed for source") = parseErr
            /\ (Len(hooks.onParseError) > 0 /\ HookErrors(c) = <<>>) => c.ret = Nil
            /\ HookErrors(c) # <<>> => c.ret = HookErrors(c)[1]

\* C24 witness: two sources accept the message, the first one's Parse failed,
\* the two parse-error hooks returned nil, and Process returned nil with the
\* second source, the OnParse hook and the Replier untouched
C24_Witness ==
    /\ call # <<>>
    /\ ParseFailed(call[1])
    /\ Cardinality(Matching(call[1].raw)) = 2
    /\ call[1].raw.replier = "acks"
    /\ Len(Whos(call[1].log, "OnParseError")) = 2
    /\ call[1].ret = Nil
    /\ Entries(call[1].log, "OnParse") = {}

-----------------------------------------------------------------------------
(* Claims about the handler registry, checked under SpecRegister *)

\* the keys a handler was registered for, and the handler of the most recent
\* Register call for a key
RegisteredKeys == {registrations[i].key : i \in 1..Len(registrations)}

LastFor(k) ==
    LET at == {i \in 1..Len(registrations) : registrations[i].key = k}
        last == CHOOSE i \in at : \A j \in at : j <= i
    IN  registrations[last].h

\* C25: after any sequence of RegisterProc and RegisterFunc calls the handler
\* map holds, for every key registered, the handler of the most recent call
\* for that key, so that a call for one key leaves every other key's handler
\* as it was; and a message with key K runs that handler and no other.
C25_LastRegistrationWins ==
    /\ DOMAIN handlers = RegisteredKeys
    /\ \A k \in RegisteredKeys : handlers[k] = LastFor(k)
    /\ (call # <<>> /\ ParsedOk(call[1])) =>
           Whos(call[1].log, "Run") \o Whos(call[1].log, "Call") =
               IF call[1].raw.key \in RegisteredKeys
               THEN <<LastFor(call[1].raw.key).id>>
               ELSE <<>>

\* C25 witness: k1 was registered with p1, then k2 with p2, then k1 again
\* with f1; a message with key k1 ran f1, and k2 still has p2
C25_Witness ==
    /\ Len(registrations) = 3
    /\ registrations[1].key = "k1" /\ registrations[1].h.id = "p1"
    /\ registrations[2].key = "k2" /\ registrations[2].h.id = "p2"
    /\ registrations[3].key = "k1" /\ registrations[3].h.id = "f1"
    /\ call # <<>>
    /\ call[1].raw.key = "k1"
    /\ Whos(call[1].log, "Call") = <<"f1">>
    /\ handlers["k2"].id = "p2"

\* C26: a Process call leaves the default inspector, the default sources, the
\* groups, the handler map and the hook lists as they were, whatever its
\* outcome; of the router's fields it writes lastMatch only.
C26_ProcessWritesLastMatchOnly ==
    [][call' # call => config' = config]_vars

\* C26 witness: a Process call that replaced a stored lastMatch ended, with
\* handlers and hooks registered
C26_Witness ==
    /\ call # <<>>
    /\ call[1].before # <<>>
    /\ lastMatch # call[1].before
    /\ DOMAIN handlers = Keys
    /\ hooks.onFailure # <<>>

-----------------------------------------------------------------------------
(* Claims about the end of a call, checked under SpecDecide *)

\* a Func handler ran, returned no error, and its result has no JSON encoding
MarshalFailed(c) ==
    /\ HandlerFound(c)
    /\ ~Rejected(c)
    /\ handlers[c.raw.key].kind = "func"
    /\ handlers[c.raw.key].outcome = "badresult"

\* C27: when the result of a Func handler cannot be marshaled no decision hook
\* is invoked, and the call concludes with the non-nil marshal error: Process
\* returns it when there is no Replier, and hands it to Replier.Fail, once
\* and with no Reply, when there is one.
C27_MarshalFailureFatal ==
    (call # <<>> /\ MarshalFailed(call[1])) =>
        LET c == call[1]
            E == Wrap("marshal result", Err("json", handlers[c.raw.key].id))
        IN  /\ DecisionEntries(c.log) = {}
            /\ Concluded(c) # Nil
            /\ Concluded(c) = E
            /\ c.raw.replier = "none" => c.ret = E /\ ReplierCalls(c.log) = {}
            /\ c.raw.replier # "none" =>
                   /\ FailArgs(c.log) = <<E>>
                   /\ Entries(c.log, "Reply") = {}

\* C27 witness: decision hooks that return nil are registered, the Func's
\* result could not be marshaled, and the Replier got the marshal error
C27_Witness ==
    /\ call # <<>>
    /\ MarshalFailed(call[1])
    /\ Len(hooks.onUnmarshalError) = 2
    /\ ~hooks.onUnmarshalError[1].fails
    /\ ~hooks.onUnmarshalError[2].fails
    /\ Entries(call[1].log, "Marshal") # {}
    /\ call[1].raw.replier = "acks"
    /\ Entries(call[1].log, "Fail") # {}

\* the stage of a Process call an entry of its log belongs to: the source
\* match, Parse, the OnParse hooks, the OnDispatch hooks (after the handler
\* lookup), decoding, validation, the user handler, the encoding of its
\* result, the hooks that see the outcome, the Replier
Stage(op) ==
    CASE op \in {"Load", "Inspect", "Match", "matchAll", "Store"} -> 1
      [] op = "Parse" -> 2
      [] op = "OnParse" -> 3
      [] op = "OnDispatch" -> 4
      [] op = "Unmarshal" -> 5
      [] op = "Validate" -> 6
      [] op \in {"Run", "Call"} -> 7
      [] op = "Marshal" -> 8
      [] op \in {"OnSuccess", "OnFailure"} \cup DecisionKinds \cup {"OnParseError"} -> 9
      [] op \in {"Reply", "Fail"} -> 10

\* the kinds of outcome hooks that fired in a call
FiredKinds(log) ==
    {log[i].op : i \in {j \in 1..Len(log) : Stage(log[j].op) = 9}}

\* the hook kinds that may fire at each outcome
KindsAt(c) ==
    IF Outcome(c) # "handled" THEN {Outcome(c)}
    ELSE IF handlers[c.raw.key].outcome = "ok" THEN {"OnSuccess"}
    ELSE {"OnFailure"}

\* C28: the entries of a call come in the order source match, Parse, OnParse
\* hooks, OnDispatch hooks, decode, validate, user handler, OnSuccess or
\* OnFailure or decision hooks, Reply or Fail; every stage up to the one the
\* call ends at is passed through, so the OnDispatch hooks are all done
\* before the handler starts; and the call ends in exactly one outcome: the
\* hooks that fire are all of the one kind that belongs to it, the handler
\* runs only when the outcome is the handler's, and the Replier is called at
\* most once.
C28_LifecycleOrder ==
    call # <<>> =>
        LET c == call[1]
        IN  /\ \A i, j \in 1..Len(c.log) : i < j => Stage(c.log[i].op) <= Stage(c.log[j].op)
            /\ Entries(c.log, "Parse") # {} <=> c.src # <<>>
            /\ Entries(c.log, "OnParse") # {} => ParsedOk(c)
            /\ Entries(c.log, "OnDispatch") # {} => HandlerFound(c)
            /\ HandlerFound(c) =>
                   /\ Whos(c.log, "OnDispatch") = Ids(hooks.onDispatch) \o OwnHook(c.src[1], "OnDispatch")
                   /\ Entries(c.log, "Unmarshal") # {}
            /\ UserCode(c.log) # {} <=> Outcome(c) = "handled"
            /\ FiredKinds(c.log) \subseteq KindsAt(c)
            /\ Cardinality(FiredKinds(c.log)) <= 1
            /\ Cardinality(ReplierCalls(c.log)) <= 1

\* C28 witness: a call that passed through every stage: the source's OnParse
\* and OnDispatch hooks, decoding, validation, the Func, the encoding of its
\* result, an OnSuccess hook and Reply
C28_Witness ==
    /\ call # <<>>
    /\ {Stage(call[1].log[i].op) : i \in 1..Len(call[1].log)} = 1..10
    /\ FiredKinds(call[1].log) = {"OnSuccess"}
    /\ Entries(call[1].log, "Reply") # {}

-----------------------------------------------------------------------------
(* Claims about the refresh of lastMatch, checked under SpecRefresh *)

\* the call loaded a reference to a source that does not accept its message
FastPathMiss(c) == c.before # <<>> /\ ~Accepts(c.before[1], c.raw)

\* the call missed on the fast path and its full search found a source
Refreshed(c) == FastPathMiss(c) /\ RanMatchAll(c) /\ c.src # <<>>

InvokerError(h) ==
    CASE h.outcome = "ok" -> Nil
      [] h.outcome = "err" -> Err("handler", h.id)
      [] h.outcome = "badresult" ->
             <<[kind |-> "marshal result", of |-> ""], [kind |-> "json", of |-> h.id]>>

\* C30: when the invoker's result is not an unmarshal or validation failure,
\* exactly one of the two hook sets fires: the OnSuccess hooks, global and
\* then the source's own, if and only if the invoker returned no error, the
\* OnFailure hooks with that error otherwise, and none of the other set. A
\* Func whose result cannot be marshaled is a failure.
C30_SuccessXorFailure ==
    (call # <<>> /\ HandlerFound(call[1]) /\ ~Rejected(call[1])) =>
        LET c == call[1]
            E == InvokerError(handlers[c.raw.key])
            onSuccess == Ids(hooks.onSuccess) \o OwnHook(c.src[1], "OnSuccess")
            onFailure == Ids(hooks.onFailure) \o OwnHook(c.src[1], "OnFailure")
        IN  /\ E = Nil => /\ Whos(c.log, "OnSuccess") = onSuccess
                          /\ Entries(c.log, "OnFailure") = {}
            /\ E # Nil => /\ Whos(c.log, "OnFailure") = onFailure
                          /\ \A i \in Entries(c.log, "OnFailure") : c.log[i].err = E
                          /\ Entries(c.log, "OnSuccess") = {}

\* C30 witness: a Func returned a value that cannot be marshaled, and the
\* global and the source's OnFailure hook fired with the marshal error while
\* the OnSuccess hooks registered beside them did not
C30_Witness ==
    /\ call # <<>>
    /\ MarshalFailed(call[1])
    /\ Len(hooks.onSuccess) = 1
    /\ "OnSuccess" \in SourceAt(call[1].src[1]).caps
    /\ Len(Whos(call[1].log, "OnFailure")) = 2
    /\ \A i \in Entries(call[1].log, "OnFailure") : ErrorsAs(call[1].log[i].err, "marshal result")
    /\ Entries(call[1].log, "OnSuccess") = {}

-----------------------------------------------------------------------------
(* Claims about what the hooks observe, checked under SpecDecide *)

\* the error decoding or validation fails with, before the router wraps it
Underlying(c) ==
    IF c.raw.payload = "undecodable" THEN Err("decode", "") ELSE Err("invalid", "")

\* C31: when decoding or validation of the payload fails, the OnDispatch
\* hooks have all fired before the decoding started, neither the OnSuccess
\* nor the OnFailure hooks fire, the only hooks that fire after the failure
\* are the decision hooks of the failure's kind, and each of them receives
\* the underlying decode or validation error.
C31_RejectedPayloadHooks ==
    (call # <<>> /\ HandlerFound(call[1]) /\ Rejected(call[1])) =>
        LET c == call[1]
            kind == IF c.raw.payload = "undecodable" THEN "OnUnmarshalError" ELSE "OnValidationError"
        IN  /\ Whos(c.log, "OnDispatch") = Ids(hooks.onDispatch) \o OwnHook(c.src[1], "OnDispatch")
            /\ \A i \in Entries(c.log, "OnDispatch"), u \in Entries(c.log, "Unmarshal") : i < u
            /\ Entries(c.log, "OnSuccess") = {}
            /\ Entries(c.log, "OnFailure") = {}
            /\ FiredKinds(c.log) \subseteq {kind}
            /\ \A i \in Entries(c.log, kind) : c.log[i].err = Underlying(c)

\* C31 witness: the source's OnDispatch hook fired, the payload did not
\* decode, and two global OnUnmarshalError hooks and the source's own got the
\* decode error, with OnSuccess and OnFailure hooks registered and silent
C31_Witness ==
    /\ call # <<>>
    /\ HandlerFound(call[1])
    /\ call[1].raw.payload = "undecodable"
    /\ Entries(call[1].log, "OnDispatch") # {}
    /\ Len(hooks.onFailure) = 1
    /\ Len(Whos(call[1].log, "OnUnmarshalError")) = 3
    /\ \A i \in Entries(call[1].log, "OnUnmarshalError") : call[1].log[i].err = Err("decode", "")

\* C32: the OnParse hooks, global and then the source's own, fire for every
\* message its source parsed, whether or not its key has a handler; when it
\* has none, the OnDispatch hooks do not fire and every OnNoHandler hook,
\* fired after the OnParse hooks, receives the context the OnParse chain
\* produced.
C32_OnParseBeforeNoHandler ==
    (call # <<>> /\ ParsedOk(call[1])) =>
        LET c == call[1]
            chain == Ids(hooks.onParse) \o OwnHook(c.src[1], "OnParse")
        IN  /\ Whos(c.log, "OnParse") = chain
            /\ c.raw.key \notin DOMAIN handlers =>
                   /\ Entries(c.log, "OnDispatch") = {}
                   /\ Whos(c.log, "OnNoHandler") =
                          Ids(hooks.onNoHandler) \o OwnHook(c.src[1], "OnNoHandler")
                   /\ \A i \in Entries(c.log, "OnNoHandler") :
                          /\ c.log[i].ctx = chain
                          /\ \A j \in Entries(c.log, "OnParse") : j < i

\* C32 witness: the key has no handler, the source's OnParse hook fired and
\* added to the context, and two global OnNoHandler hooks and the source's
\* own got that context, while the source's OnDispatch hook stayed silent
C32_Witness ==
    /\ call # <<>>
    /\ ParsedOk(call[1])
    /\ call[1].raw.key \notin DOMAIN handlers
    /\ "OnDispatch" \in SourceAt(call[1].src[1]).caps
    /\ Whos(call[1].log, "OnParse") = <<"H">>
    /\ Len(Whos(call[1].log, "OnNoHandler")) = 3
    /\ \A i \in Entries(call[1].log, "OnNoHandler") : call[1].log[i].ctx = <<"H">>
    /\ Entries(call[1].log, "OnDispatch") = {}

\* a global hook of the call's decision kind is registered and no hook of the
\* kind, global or the source's own, returned an error
Skipped(c) == Len(GlobalsOf(Outcome(c))) > 0 /\ HookErrors(c) = <<>>

-----------------------------------------------------------------------------
(* Claims about the writes of lastMatch, checked under SpecRegister and SpecConc *)

\* the full search of the call found a source
FullSearchMatched(c) == RanMatchAll(c) /\ c.src # <<>>

\* C34: a Process call writes lastMatch only when its full search matches a
\* source, and then with that source's position: a fast-path hit and a
\* message no source matches leave it as it was, and it is never cleared. The
\* write comes before Parse, so lastMatch names the matched source whether
\* Parse then fails, the key has no handler, or the handler fails.
C34_LastMatchWrites ==
    [][call' # <<>> =>
          LET c == call'[1]
          IN  /\ lastMatch' # lastMatch => FullSearchMatched(c)
              /\ FullSearchMatched(c) =>
                     /\ lastMatch' = c.src
                     /\ Entries(c.log, "Store") # {}
                     /\ \A s \in Entries(c.log, "Store"), p \in Entries(c.log, "Parse") : s < p
              /\ ~FullSearchMatched(c) => Entries(c.log, "Store") = {}
              /\ lastMatch # <<>> => lastMatch' # <<>>]_vars

\* C34 witness: the full search matched a source and stored its position,
\* the source's Parse then failed, and lastMatch names that source
C34_Witness ==
    /\ call # <<>>
    /\ FullSearchMatched(call[1])
    /\ call[1].raw.parse = "fail"
    /\ call[1].ret # Nil
    /\ lastMatch = call[1].src
    /\ lastMatch # call[1].before

\* a value of lastMatch is unset or the position of a source that exists
NamesSource(lm) ==
    \/ lm = <<>>
    \/ /\ lm[1].groupIdx = DefaultGroupIdx
       /\ 0 <= lm[1].sourceIdx
       /\ lm[1].sourceIdx < Len(defaultSources)
    \/ /\ 0 <= lm[1].groupIdx
       /\ lm[1].groupIdx < Len(groups)
       /\ 0 <= lm[1].sourceIdx
       /\ lm[1].sourceIdx < Len(groups[lm[1].groupIdx + 1].sources)

\* C35: once registration has finished, lastMatch, and every value of it a
\* concurrent call has loaded, is unset or the position of an existing
\* source, whatever the interleaving of the calls.
C35_LastMatchInRange ==
    /\ NamesSource(lastMatch)
    /\ \A c \in ProcIds : procs[c].pc = "loaded" => NamesSource(procs[c].lm)

\* C35 witness: lastMatch names a source of a custom group while a concurrent
\* call holds the position of a default source it loaded earlier
C35_Witness ==
    /\ lastMatch # <<>>
    /\ lastMatch[1].groupIdx = 0
    /\ \E c \in ProcIds :
           /\ procs[c].pc = "loaded"
           /\ procs[c].lm # <<>>
           /\ procs[c].lm[1].groupIdx = DefaultGroupIdx
           /\ procs[c].lm[1].sourceIdx = Len(defaultSources) - 1

-----------------------------------------------------------------------------
(* Re-entrant calls.  A handler may call Process on the router that runs it. *)
(* A call is followed through four positions: "called" (Process was called,  *)
(* lastMatch is not yet loaded), "handling" (its handler runs), "nesting"    *)
(* (its handler has called Process and the nested call has not run) and      *)
(* "returning" (the handler's nested call has returned).  What a call does   *)
(* is a function of its message, of the value of lastMatch it loads and of   *)
(* the configuration, which no call writes: it is worked out for every value *)
(* of lastMatch when the call is made, and looked up when lastMatch is       *)
(* loaded.                                                                   *)

\* the values lastMatch can hold
LastMatchValues == {<<>>} \cup {<<ref>> : ref \in Registered}

\* what Process does with raw for each value of lastMatch it may load
Outcomes(raw) == [lm \in LastMatchValues |-> ProcessLoaded(lm, raw)]

\* caller c calls Process(raw)
Start(c, raw) ==
    /\ procs[c].pc = "idle"
    /\ procs' = [procs EXCEPT ![c] = [pc |-> "called", raw |-> raw, lm |-> <<>>,
                                      todo |-> Outcomes(raw)]]
    /\ UNCHANGED <<config, lastMatch, call, registrations>>

\* the call of c from the load of lastMatch to the moment its handler runs or,
\* when no handler runs, to its return
Search(c) ==
    LET r == procs[c].todo[lastMatch]
        handled == \E i \in 1..Len(r.log) : r.log[i].op \in {"Run", "Call"}
    IN  /\ procs[c].pc = "called"
        /\ lastMatch' = IF r.stored # <<>> THEN r.stored ELSE lastMatch
        /\ procs' = [procs EXCEPT ![c] = [pc |-> IF handled THEN "handling" ELSE "returning",
                                          raw |-> procs[c].raw, lm |-> lastMatch, res |-> r]]
        /\ UNCHANGED <<config, call, registrations>>

\* the handler of c calls Process(raw) on the same router
Reenter(c, raw) ==
    /\ procs[c].pc = "handling"
    /\ procs' = [procs EXCEPT ![c] = [pc |-> "nesting", raw |-> procs[c].raw, lm |-> procs[c].lm,
                                      res |-> procs[c].res, nested |-> raw,
                                      todo |-> Outcomes(raw)]]
    /\ UNCHANGED <<config, lastMatch, call, registrations>>

\* Nested that first takes a lock every call in progress holds
Nested_locked(c) ==
    LET r == procs[c].todo[lastMatch]
    IN  /\ procs[c].pc = "nesting"
        /\ \A o \in ProcIds : procs[o].pc \in {"idle", "called"}
        /\ lastMatch' = IF r.stored # <<>> THEN r.stored ELSE lastMatch
        /\ call' = Finished("nested", lastMatch, procs[c].nested, r)
        /\ procs' = [procs EXCEPT ![c] = [pc |-> "returning", raw |-> procs[c].raw,
                                          lm |-> procs[c].lm, res |-> procs[c].res]]
        /\ UNCHANGED <<config, registrations>>

\* the nested call the handler of c made, from its load of lastMatch to its
\* return
Nested(c) ==
    LET r == procs[c].todo[lastMatch]
    IN  /\ procs[c].pc = "nesting"
        /\ lastMatch' = IF r.stored # <<>> THEN r.stored ELSE lastMatch
        /\ call' = Finished("nested", lastMatch, procs[c].nested, r)
        /\ procs' = [procs EXCEPT ![c] = [pc |-> "returning", raw |-> procs[c].raw,
                                          lm |-> procs[c].lm, res |-> procs[c].res]]
        /\ UNCHANGED <<config, registrations>>

\* the call of c returns: its handler has returned, with or without a nested
\* call, or no handler ran
Return(c) ==
    /\ procs[c].pc \in {"handling", "returning"}
    /\ call' = Finished(c, procs[c].lm, procs[c].raw, procs[c].res)
    /\ procs' = [procs EXCEPT ![c] = Idle]
    /\ UNCHANGED <<config, lastMatch, registrations>>

\* Two default sources and one Proc, and two callers that call Process at the
\* same time on messages that a source matches or none does; the handlers may
\* call Process themselves. A call that has been made runs on: Process is
\* sequential code that its caller's goroutine executes.
ReenterMsgs == {raw \in MatchMsgs : raw.fmt = "json" /\ raw.fields # {"a", "b"}}

InitReenter ==
    InitRouter("J", <<PlainSource("A", {"a"}), PlainSource("B", {"b"})>>, <<>>, OneProc, NoHooks)

NextReenter ==
    \/ \E c \in ProcIds, raw \in ReenterMsgs : Start(c, raw)
    \/ \E c \in ProcIds : Search(c)
    \/ \E c \in ProcIds, raw \in ReenterMsgs : Reenter(c, raw)
    \/ \E c \in ProcIds : Nested(c)
    \/ \E c \in ProcIds : Return(c)

SpecReenter ==
    /\ InitReenter
    /\ [][NextReenter]_vars
    /\ \A c \in ProcIds : WF_vars(Search(c)) /\ WF_vars(Nested(c)) /\ WF_vars(Return(c))

-----------------------------------------------------------------------------
(* Claims about termination, checked under SpecReenter *)

\* the call of c is in progress and its next step can be taken now
CanStep(c) ==
    CASE procs[c].pc = "called" -> ENABLED Search(c)
      [] procs[c].pc = "handling" -> ENABLED Return(c)
      [] procs[c].pc = "nesting" -> ENABLED Nested(c)
      [] procs[c].pc = "returning" -> ENABLED Return(c)
      [] OTHER -> TRUE

\* C36: no step of a Process call waits for another call: whatever the other
\* caller is doing, and also inside a handler of the same router, a call that
\* was made can load lastMatch and search, run a nested call and return; so
\* every call that was made returns.
C36_ProcessTerminates ==
    /\ [](\A c \in ProcIds : CanStep(c))
    /\ \A c \in ProcIds : (procs[c].pc # "idle") ~> (procs[c].pc = "idle")

\* C36 witness: the handler of one call has made a nested call that has
\* returned, while the other caller's handler has called Process and that
\* nested call has yet to run
C36_Witness ==
    /\ call # <<>>
    /\ call[1].by = "nested"
    /\ procs["c1"].pc = "returning"
    /\ procs["c2"].pc = "nesting"

-----------------------------------------------------------------------------
(* Claims about self-validation, checked under SpecDecide *)

\* C37: Validate is invoked at most once in a call and never on a payload that
\* did not decode; on a decoded payload it is invoked on the value when the
\* payload type has it, on the address of the value when only the pointer type
\* has it, and not at all when neither has it, and then the handler runs.
C37_ValidateOnce ==
    (call # <<>> /\ HandlerFound(call[1])) =>
        LET c == call[1]
            h == handlers[c.raw.key]
            V == Entries(c.log, "Validate")
            on(recv) == /\ Cardinality(V) = 1
                        /\ \A v \in V : c.log[v].arg = recv /\ c.log[v].who = h.id
        IN  /\ Cardinality(V) <= 1
            /\ c.raw.payload = "undecodable" => V = {}
            /\ c.raw.payload # "undecodable" =>
                    /\ h.validates = "value" => on("value")
                    /\ h.validates = "pointer" => on("pointer")
                    /\ h.validates = "none" => V = {} /\ Cardinality(UserCode(c.log)) = 1

\* C37 witness: a payload whose type validates on the pointer only was decoded
\* and validated once, on its address, and the handler ran
C37_Witness ==
    /\ call # <<>>
    /\ HandlerFound(call[1])
    /\ handlers[call[1].raw.key].validates = "pointer"
    /\ call[1].raw.payload = "good"
    /\ \E v \in Entries(call[1].log, "Validate") : call[1].log[v].arg = "pointer"
    /\ UserCode(call[1].log) # {}

====
